---- MODULE Spec2Model ----
(***************************************************************************)
(* A model of ydiskarc (src/ydiskarc/cmds/processor.py): the recursive     *)
(* directory walker yd_get_and_store_dir, the statistics scanner           *)
(* scan_directory_for_stats, the resumable downloader get_file and the     *)
(* orchestration in Project.__store, run against a remote tree, a local    *)
(* file system and a server that may fail.                                 *)
(*                                                                         *)
(* A remote path string is modelled by its split on "/": a sequence of     *)
(* segments; a segment is a sequence of tokens, a token being either a     *)
(* single blank SP or a run of non-blank characters.  A local path is the  *)
(* sequence of its components (what os.path.join glues with "/").          *)
(***************************************************************************)
EXTENDS Integers, Sequences, FiniteSets, TLC

\* ------------------------------------------------------------------ bounds
\* Longest listing (number of entries of one directory page).
MaxEntries == 2
\* Largest size of the local file a download finds at its destination.
MaxExisting == 2
\* Largest size of the remote file a download fetches.
MaxContent == 3
\* Number of disturbances (failed request, failed disk operation, 429 answer)
\* the environment injects in one run.
MaxFaults == 1

\* ------------------------------------------------------------ path strings
SP == " "

Seg(tok) == << tok >>
\* "a/f1.txt", "f2", "d", "d/f3", "_metadata.json" as split on "/"
P_a_f1 == << Seg("a"), Seg("f1.txt") >>
P_f2 == << Seg("f2") >>
P_d == << Seg("d") >>
P_d_f3 == << Seg("d"), Seg("f3") >>
P_meta == << Seg("_metadata.json") >>
\* "" split on "/" is [""]
P_root == << << >> >>

\* str.strip() of a segment is empty: the segment holds blanks only
IsBlank(seg) == \A k \in 1..Len(seg) : seg[k] = SP

\* a trim of both ends: str.strip()
StripBoth(seg) ==
    LET kept == { k \in DOMAIN seg : seg[k] # SP }
    IN  IF kept = {} THEN << >>
        ELSE SubSeq(seg, CHOOSE k \in kept : \A j \in kept : k <= j,
                         CHOOSE k \in kept : \A j \in kept : k >= j)

\* str.rstrip(): drop the trailing blanks
RECURSIVE RStrip(_)
RStrip(seg) ==
    IF seg = << >> \/ seg[Len(seg)] # SP
    THEN seg
    ELSE RStrip(SubSeq(seg, 1, Len(seg) - 1))

\* a split that drops the empty segments only: "if i" for "if i.strip()"
RECURSIVE ComponentsKeepBlank(_)
ComponentsKeepBlank(path) ==
    IF path = << >>
    THEN << >>
    ELSE IF Head(path) = << >>
         THEN ComponentsKeepBlank(Tail(path))
         ELSE << RStrip(Head(path)) >> \o ComponentsKeepBlank(Tail(path))

\* [i.rstrip() for i in path.split("/") if i.strip()]
RECURSIVE Components(_)
Components(path) ==
    IF path = << >>
    THEN << >>
    ELSE IF IsBlank(Head(path))
         THEN Components(Tail(path))
         ELSE << RStrip(Head(path)) >> \o Components(Tail(path))

\* arr = [output]; arr.extend(...)
Arr(output, path) == << output >> \o Components(path)

\* dir_path = os.path.join(*arr)
DirPath(output, path) == Arr(output, path)

\* file_path = os.path.join(*arr[:-1]) raises TypeError when arr[:-1] is empty
FilePathRaises(output, path) == Len(Arr(output, path)) = 1

\* a mapping that puts every file into the output root
FileDirFlat(output, path) == << output >>

\* file_path = os.path.join(*arr[:-1])
FileDir(output, path) == SubSeq(Arr(output, path), 1, Len(Arr(output, path)) - 1)

\* file_name = arr[-1]
FileName(output, path) == Arr(output, path)[Len(Arr(output, path))]

\* os.path.join(dir, name), both already split in components
Join(dir, name) == dir \o << name >>

\* full_file_path = os.path.join(file_path, file_name)
FullFilePath(output, path) == Join(FileDir(output, path), FileName(output, path))

MetaName == Seg("_metadata.json")

\* metadata_file = os.path.join(dir_path, "_metadata.json")
MetadataFile(dir) == Join(dir, MetaName)

\* ------------------------------------------------------- local file system
\* fs maps each existing local path to its node.
\* A regular file holds text (what was written in text mode: response
\* bodies) followed by data (what was written in binary mode: downloaded
\* bytes); a file written by the program holds one of the two, unless a
\* download appends to a metadata snapshot.
DirNode == [kind |-> "dir", text |-> << >>, data |-> << >>]
FileNode(text, data) == [kind |-> "file", text |-> text, data |-> data]

\* os.path.exists
Exists(f, p) == p \in DOMAIN f
IsDir(f, p) == Exists(f, p) /\ f[p].kind = "dir"
IsFile(f, p) == Exists(f, p) /\ f[p].kind = "file"

Prefixes(p) == { SubSeq(p, 1, k) : k \in 1..Len(p) }

\* os.makedirs(p, exist_ok=True) raises OSError: a component is a regular file
MakedirsRaises(f, p) == \E q \in Prefixes(p) : IsFile(f, q)

\* os.makedirs(p, exist_ok=True)
Makedirs(f, p) ==
    [q \in (DOMAIN f) \cup Prefixes(p) |-> IF q \in DOMAIN f THEN f[q] ELSE DirNode]

Parent(p) == SubSeq(p, 1, Len(p) - 1)

\* open(p, "w") / open(p, "wb") / open(p, "ab") raises IOError: p is a
\* directory, or its directory does not exist (a file name alone lies in the
\* working directory, which exists)
OpenRaises(f, p) == IsDir(f, p) \/ (Len(p) > 1 /\ ~IsDir(f, Parent(p)))

Put(f, p, node) == [q \in (DOMAIN f) \cup {p} |-> IF q = p THEN node ELSE f[q]]

\* open(p, "w"): create or truncate
OpenTruncate(f, p) == Put(f, p, FileNode(<< >>, << >>))

\* open(p, "ab"): create, keep the content
OpenAppend(f, p) == IF Exists(f, p) THEN f ELSE Put(f, p, FileNode(<< >>, << >>))

\* f.write(bytes) on a file opened in binary mode
Write(f, p, bytes) == Put(f, p, FileNode(f[p].text, f[p].data \o bytes))

\* f.write(resp.text) on a file opened in text mode
WriteText(f, p, text) == Put(f, p, FileNode(Append(f[p].text, text), f[p].data))

\* ------------------------------------------------------------- remote tree
\* One item of data["_embedded"]["items"]: keys is the set of keys the JSON
\* object holds; size is << >> for null and << n >> for the number n.
Entry(keys, path, type, file, size) ==
    [keys |-> keys, path |-> path, type |-> type, file |-> file, size |-> size]

AllKeys == {"path", "type", "file", "size"}

\* "http://x/<name>" as split on "/"
Url(name) == << "http:", "", "x", name >>

\* {"type":"file","path":"a/f1.txt","file":"http://x/f1","size":100}
F1 == Entry(AllKeys, P_a_f1, "file", Url("f1"), << 100 >>)
\* a file entry without a size key
F2 == Entry({"path", "type", "file"}, P_f2, "file", Url("f2"), << >>)
\* a file entry with "size": null, inside directory d
F3 == Entry(AllKeys, P_d_f3, "file", Url("f3"), << >>)
\* a file entry of the root directory named _metadata.json
FM == Entry(AllKeys, P_meta, "file", Url("m"), << 7 >>)
\* {"type":"dir","path":"d"}
D1 == Entry({"path", "type"}, P_d, "dir", << >>, << >>)
\* an entry without a path key (tests/test_processor.py:416-421)
NP == Entry({"type", "file"}, << >>, "file", Url("np"), << >>)

RootPool == {F1, F2, FM, D1, NP}

\* All sequences over S of length at most n
RECURSIVE SeqsUpTo(_, _)
SeqsUpTo(S, n) ==
    IF n = 0
    THEN { << >> }
    ELSE LET shorter == SeqsUpTo(S, n - 1)
         IN  shorter \cup { Append(s, x) : s \in shorter, x \in S }

\* The parsed body of a listing response: embedded says whether
\* "_embedded" and its "items" are there.
Listing(embedded, items) == [embedded |-> embedded, items |-> items]

NoEmbedded == Listing(FALSE, << >>)

RootListings ==
    { NoEmbedded } \cup { Listing(TRUE, s) : s \in SeqsUpTo(RootPool, MaxEntries) }

SubListings ==
    { NoEmbedded, Listing(TRUE, << >>), Listing(TRUE, << F3 >>),
      Listing(TRUE, << NP, F3 >>) }

HasDir(listing) == \E k \in 1..Len(listing.items) : listing.items[k] = D1

\* The remote tree: the listing served for each directory path.
RemoteTrees ==
    { (P_root :> r) @@ (P_d :> s) :
        r \in RootListings,
        s \in SubListings }

\* resp.text of the listing of path p: the bytes as the server sent them
Body(p) == << "raw", p >>

\* what json.dumps(resp.json()) would give: not the bytes received
Reserialized(p) == << "dumped", p >>

\* ----------------------------------------------------------------- state
VARIABLES
    remote,     \* the remote tree: directory path -> listing
    output,     \* the output root (one path component)
    update,     \* updateOnly
    nofiles,    \* metadataOnly
    iterative,  \* recursive
    op,         \* the operation run: "sync" (Project.sync), "full"
                \* (Project.full), "walk" or "get_file"
    content,    \* the bytes of the remote file behind a download URL
    config,     \* the Config the run uses (config.py:9-20)
    fs0,        \* the local file system the run started from
    env,        \* how the server disturbs: env.ra, the Retry-After headers of
                \* its 429 answers; env.bad, the ways a request fails
    full,       \* the activation of yd_get_full: its arguments, the answers
                \* the server has for it, and metadata_data
    fs,         \* the local file system
    stack,      \* call stack of scan_directory_for_stats / yd_get_and_store_dir
    dl,         \* the activation of get_file
    pc,         \* where the operation stands
    faults,     \* disturbances the environment may still inject
    exc,        \* the exception the operation ended with ("" for none)
    ret,        \* what the root scan returned: << file_count, total_size >>
    hist,       \* what happened so far, in order
    argv,       \* the command line of core.py: the URL and --output
    verbose,    \* the verbose flag every function is passed
    tx          \* the session at work on one request: which session.get of
                \* the request it is, the retries left, the errors so far

vars == << remote, output, update, nofiles, iterative, op, content, config,
           fs0, env, full, fs, stack, dl, pc, faults, exc, ret, hist, argv,
           verbose, tx >>

\* What no step of an operation changes
args == << remote, output, update, nofiles, iterative, op, content, config,
          fs0, env, argv, verbose, tx >>

\* No request is followed attempt by attempt
NoTx == [call |-> 0, left |-> 0, errors |-> 0]

\* The operation was not started from the command line
NoArgv == [url |-> << >>, output |-> << >>]

\* What the scanner, the walker and get_file leave alone
inputs == << args, full >>

\* ---------------------------------------------------------------- events
NoPath == << >>

NoUrl == << >>

\* ev names the event; s is a name, u a URL, p and q are paths, n a number,
\* o an optional number (<< >> or << n >>)
Ev(ev, s, u, p, q, n, o) ==
    [ev |-> ev, s |-> s, u |-> u, p |-> p, q |-> q, n |-> n, o |-> o]

\* session.get(YD_API, params={"public_key": url, "path": path, "limit": 1000})
ListEv(fn, path) == Ev("list", fn, NoUrl, path, NoPath, 0, << >>)
\* session.get(url, headers=headers, stream=True): range is << >> or << S >>
GetEv(url, range) == Ev("GET", "", url, NoPath, NoPath, 0, range)
\* the answer to the last request: "ok", "429", "err" (another status
\* raise_for_status rejects), "exc" (no answer: timeout, connection error)
ReplyEv(kind, retryAfter) == Ev("reply", kind, NoUrl, NoPath, NoPath, 0, retryAfter)
\* time.sleep(n)
SleepEv(n) == Ev("sleep", "", NoUrl, NoPath, NoPath, n, << >>)
\* os.makedirs(dir_path) done
MkdirEv(dir) == Ev("mkdir", "", NoUrl, dir, NoPath, 0, << >>)
\* resp.text of the listing of path written to file
MetaEv(file, path, text) == Ev("meta", text[1], NoUrl, file, text[2], 0, << >>)
\* get_file(url, filepath, filename=..., filesize=...) called
GetFileEv(url, filepath, filename, filesize) ==
    Ev("get_file", "", url, filepath, filename, 0, filesize)
\* page.close()
CloseEv == Ev("close", "", NoUrl, NoPath, NoPath, 0, << >>)
\* the exception e leaves an activation of fn ("scan", "walk", "get_file")
\* that works on path
RaiseEv(fn, path, e) == Ev("raise", e, NoUrl, path, << << fn >> >>, 0, << >>)
\* logging.error / logging.warning called in fn with the exception e
LogEv(level, fn, e) == Ev("log", e, NoUrl, NoPath, << << fn, level >> >>, 0, << >>)

\* "if verbose: logging.<level>(... {e})"
IfVerbose(level, fn, e) == IF verbose THEN << LogEv(level, fn, e) >> ELSE << >>

\* The exception e leaves fn: every except clause that re-raises, and the
\* two explicit raise statements of yd_get_full, log the error first when
\* verbose (processor.py:144-147, 216-228, 269-272, 323-326, 351-358,
\* 408-415, 432-435, 478-488, 587-597, 608-611, 620-623, 770-773); the
\* KeyError of row["type"] and the TypeError of os.path.join(*arr[:-1])
\* stand in no try of their function
Raising(fn, path, e) ==
    (IF e \in { "KeyError", "TypeError" } THEN << >> ELSE IfVerbose("error", fn, e))
    \o << RaiseEv(fn, path, e) >>

\* ------------------------------------------------------------- transport
\* config.py:18-19: max_retries = 3, retry_backoff_factor = 1.0
DefaultConfig == [max_retries |-> 3, retry_backoff_factor |-> 1]

\* Retry-After header of a 429 answer: absent, or "10"
RetryAfters == { << >>, << 10 >> }

\* int(resp.headers.get("Retry-After", 60))
DefaultRetryAfter == 60

RetryAfterSeconds(retryAfter) ==
    IF retryAfter = << >> THEN DefaultRetryAfter ELSE retryAfter[1]

\* a pause that grows with the backoff factor of the session's retries
handle_rate_limit_backoff(retryAfter) ==
    << SleepEv(RetryAfterSeconds(retryAfter) * config.retry_backoff_factor) >>

\* handle_rate_limit(resp): what it does on a 429 answer
handle_rate_limit(retryAfter) == << SleepEv(RetryAfterSeconds(retryAfter)) >>

Outcome(cost, evs, final) == [cost |-> cost, evs |-> evs, final |-> final]

\* What a failed request raises: session.get itself ("exc": a timeout, a
\* connection error), or raise_for_status on the answer ("err")
Raised(kind) == IF kind = "exc" THEN "RequestException" ELSE "HTTPError"

\* One session.get whose answer is not 429, then raise_for_status
PlainOutcomes(req, budget) ==
    { Outcome(0, << req, ReplyEv("ok", << >>) >>, "ok") }
    \cup
    (IF budget >= 1
     THEN { Outcome(1, << req, ReplyEv(kind, << >>) >>, Raised(kind)) : kind \in env.bad }
     ELSE { })

\* The request sent again after handle_rate_limit
RetryRequest(req) == req

\* resp = session.get(...); if resp.status_code == 429:
\* handle_rate_limit(resp); resp = session.get(...); resp.raise_for_status()
GetOutcomes(req, budget) ==
    PlainOutcomes(req, budget)
    \cup
    (IF budget >= 1
     THEN UNION { LET head == << req, ReplyEv("429", ra) >> \o handle_rate_limit(ra)
                  IN  { Outcome(1 + o.cost, head \o o.evs, o.final) :
                          o \in PlainOutcomes(RetryRequest(req), budget - 1) }
                      \cup
                      (IF budget >= 2
                       THEN { Outcome(2, head \o << RetryRequest(req), ReplyEv("429", ra2) >>,
                                      "HTTPError") : ra2 \in env.ra }
                       ELSE { })
                : ra \in env.ra }
     ELSE { })

\* ------------------------------------------------------------ call stack
\* One activation of scan_directory_for_stats (fn = "scan") or of
\* yd_get_and_store_dir (fn = "walk"): pos is "fetch", "mkdir", "meta" or
\* "loop"; i is the index of the row the for loop is at; count and total
\* are file_count and total_size.
Frame(fn, path) ==
    [fn |-> fn, path |-> path, pos |-> "fetch", listing |-> NoEmbedded,
     text |-> Body(NoPath), i |-> 1, count |-> 0, total |-> 0]

Top == stack[Len(stack)]
SetTop(f) == [stack EXCEPT ![Len(stack)] = f]
Pop == SubSeq(stack, 1, Len(stack) - 1)

\* The caller's loop goes on with its next row
Continue(st) == [st EXCEPT ![Len(st)].i = @ + 1]

\* get_file is not running
NoDl ==
    [pos |-> "idle", url |-> NoUrl, filepath |-> NoPath, filename |-> NoPath,
     filesize |-> << >>, resume |-> FALSE, dest |-> NoPath, existing |-> 0,
     total |-> 0, body |-> << >>, k |-> 0, range |-> << >>, mode |-> "",
     aria2 |-> FALSE, aria2path |-> << >>]

\* get_file(url, filepath, filename=filename, filesize=filesize) is entered
StartDl(url, filepath, filename, filesize, resume) ==
    [NoDl EXCEPT !.pos = "get", !.url = url, !.filepath = filepath,
                 !.filename = filename, !.filesize = filesize, !.resume = resume]

\* an exception that no activation catches: it ends the operation
UnwindToCaller(e) ==
    /\ stack' = << >>
    /\ pc' = "raised"
    /\ exc' = e
    /\ UNCHANGED ret

\* a parent that calls the subtree again when its listing request failed
UnwindRetrying(e) ==
    IF Len(stack) > 1 /\ e \in { "HTTPError", "RequestException" }
    THEN /\ stack' = SetTop(Frame(Top.fn, Top.path))
         /\ UNCHANGED << pc, exc, ret >>
    ELSE IF Len(stack) > 1
    THEN /\ stack' = Continue(Pop)
         /\ UNCHANGED << pc, exc, ret >>
    ELSE IF Top.fn = "scan" /\ op = "full"
         THEN /\ stack' = << >>
              /\ pc' = "full_link"
              /\ UNCHANGED << exc, ret >>
    ELSE IF Top.fn = "scan"
         THEN /\ stack' = << Frame("walk", P_root) >>
              /\ pc' = "walking"
              /\ UNCHANGED << exc, ret >>
         ELSE /\ stack' = << >>
              /\ pc' = "raised"
              /\ exc' = e
              /\ UNCHANGED ret

\* An exception e leaves the top activation.  Inside a parent activation it
\* is caught by the parent's "except Exception" and the parent's loop
\* continues (processor.py:503-506, 656-659); the root scan is called in
\* yd_get_full under "except Exception" and the download link follows
\* (processor.py:384-402), or in Project.__store under "except Exception"
\* and the walk follows (processor.py:791-798); out of the root walk it
\* reaches the caller.
Unwind(e) ==
    IF Len(stack) > 1
    THEN /\ stack' = Continue(Pop)
         /\ UNCHANGED << pc, exc, ret >>
    ELSE IF Top.fn = "scan" /\ op = "full"
         THEN /\ stack' = << >>
              /\ pc' = "full_link"
              /\ UNCHANGED << exc, ret >>
    ELSE IF Top.fn = "scan"
         THEN /\ stack' = << Frame("walk", P_root) >>
              /\ pc' = "walking"
              /\ UNCHANGED << exc, ret >>
         ELSE /\ stack' = << >>
              /\ pc' = "raised"
              /\ exc' = e
              /\ UNCHANGED ret

\* How many activations of the scanner or the walker fit into one another
\* before the interpreter stops the descent: the recursion limit, in calls
RecursionLimit == 3

\* an interpreter that has no room for any call
OverflowsAtOnce(st) == Len(st) >= 1

\* the recursive call (processor.py:496, 647) finds the limit reached
Overflows(st) == Len(st) >= RecursionLimit

\* processor.py:503-506, 656-659: the RecursionError of the call for the
\* directory row of path is taken by the except clause around it
Overflown(fn, path) ==
    << RaiseEv(fn, path, "RecursionError") >> \o IfVerbose("error", fn, "RecursionError")

Running == pc \in {"scanning", "walking"} /\ stack # << >> /\ dl.pos = "idle"

\* What the except clause that takes the exception e of the top activation
\* logs: the parent's (processor.py:503-506, 656-659) an error and the one
\* around the root scan (384-386, 791-793) a warning, each behind "if
\* verbose"; nothing takes the exception of the root walk
Caught(e) ==
    IF Len(stack) > 1 THEN IfVerbose("error", stack[Len(stack) - 1].fn, e)
    ELSE IF Top.fn = "scan"
    THEN IfVerbose("warning", IF op = "full" THEN "full" ELSE "store", e)
    ELSE << >>

\* processor.py:689-691: what the walker logs when it takes the exception
\* of get_file
DlCaught(e) == IF stack # << >> THEN IfVerbose("error", "walk", e) ELSE << >>

\* ---------------------------------------------- scan_directory_for_stats
\* processor.py:466-488: the listing request and resp.json()
ScanFetch ==
    /\ Running /\ Top.fn = "scan" /\ Top.pos = "fetch"
    /\ \E o \in GetOutcomes(ListEv("scan", Top.path), faults) :
         \/ /\ o.final = "ok"
            /\ faults' = faults - o.cost
            /\ hist' = hist \o o.evs
            /\ stack' = SetTop([Top EXCEPT !.pos = "loop",
                                           !.listing = remote[Top.path],
                                           !.text = Body(Top.path)])
            /\ UNCHANGED << pc, exc, ret >>
         \/ /\ o.final = "ok" /\ faults - o.cost >= 1
            /\ faults' = faults - o.cost - 1
            /\ hist' = hist \o o.evs \o Raising("scan", Top.path, "ValueError") \o Caught("ValueError")
            /\ Unwind("ValueError")
         \/ /\ o.final # "ok"
            /\ faults' = faults - o.cost
            /\ hist' = hist \o o.evs \o Raising("scan", Top.path, o.final) \o Caught(o.final)
            /\ Unwind(o.final)
    /\ UNCHANGED << inputs, fs, dl >>

\* a loop that takes the path key for granted
HasPathAssumed(row) == TRUE

\* processor.py:492, 630: "path" in row.keys()
HasPath(row) == "path" \in row.keys

\* row["size"] added to total_size: "size" in row and row["size"] is not None
SizeOf(row) == IF "size" \in row.keys /\ row.size # << >> THEN row.size[1] ELSE 0

\* a scanner that counts a file only when the listing gives its size
ScanFileSized(f, row) ==
    IF nofiles
    THEN f
    ELSE IF Exists(fs, FullFilePath(output, row.path)) /\ update
         THEN f
         ELSE IF "size" \in row.keys /\ row.size # << >>
              THEN [f EXCEPT !.count = @ + 1, !.total = @ + row.size[1]]
              ELSE f

\* processor.py:509-526: what a file row adds to (file_count, total_size)
ScanFile(f, row) ==
    IF nofiles
    THEN f
    ELSE IF Exists(fs, FullFilePath(output, row.path)) /\ update
         THEN f
         ELSE [f EXCEPT !.count = @ + 1, !.total = @ + SizeOf(row)]

\* processor.py:491-526: one round of the for loop; mirrors says whether
\* the local directory of a dir row is created, as the walker does
ScanEntryOn(mirrors) ==
    /\ Running /\ Top.fn = "scan" /\ Top.pos = "loop"
    /\ Top.i <= Len(Top.listing.items)
    /\ LET row == Top.listing.items[Top.i]
       IN  IF ~HasPath(row)
           THEN stack' = Continue(stack) /\ UNCHANGED << pc, exc, ret, hist >>
           ELSE IF "type" \notin row.keys
           THEN /\ hist' = hist \o Raising("scan", Top.path, "KeyError") \o Caught("KeyError")
                /\ Unwind("KeyError")
           ELSE IF row.type = "dir" /\ Overflows(stack)
           THEN /\ stack' = Continue(stack)
                /\ hist' = hist \o Overflown("scan", row.path)
                /\ UNCHANGED << pc, exc, ret >>
           ELSE IF row.type = "dir"
           THEN /\ stack' = Append(stack, Frame("scan", row.path))
                /\ UNCHANGED << pc, exc, ret, hist >>
           ELSE IF row.type = "file" /\ ~nofiles /\ FilePathRaises(output, row.path)
           THEN /\ hist' = hist \o Raising("scan", Top.path, "TypeError") \o Caught("TypeError")
                /\ Unwind("TypeError")
           ELSE IF row.type = "file"
           THEN /\ stack' = Continue(SetTop(ScanFile(Top, row)))
                /\ UNCHANGED << pc, exc, ret, hist >>
           ELSE stack' = Continue(stack) /\ UNCHANGED << pc, exc, ret, hist >>
    /\ LET row == Top.listing.items[Top.i]
       IN  fs' = IF mirrors /\ HasPath(row) /\ "type" \in row.keys /\ row.type = "dir"
                    /\ ~MakedirsRaises(fs, DirPath(output, row.path))
                 THEN Makedirs(fs, DirPath(output, row.path))
                 ELSE fs
    /\ UNCHANGED << inputs, dl, faults >>

\* a scanner that creates the local directories on its way
ScanEntryMirroring == ScanEntryOn(TRUE)

\* processor.py:491-526: the scanner creates nothing
ScanEntry == ScanEntryOn(FALSE)

\* a sync that returns early only when update is set
WalksAfterScanUnlessUpdate(file_count) == file_count > 0 \/ ~update

\* a sync that goes on to the walk whatever the scan has counted
WalksAfterScanAlways(file_count) == TRUE

\* processor.py:781-790: if file_count > 0 the walk follows; elif update:
\* return; else: return
WalksAfterScan(file_count) == file_count > 0

\* processor.py:528 and its callers: return file_count, total_size.  In a
\* parent scan the pair is added (498-502); in yd_get_full it is printed
\* (378-383); in Project.__store it decides between the walk and an early
\* return (781-790).
ScanReturn ==
    /\ Running /\ Top.fn = "scan" /\ Top.pos = "loop"
    /\ Top.i > Len(Top.listing.items)
    /\ IF Len(stack) > 1
       THEN /\ stack' = Continue([Pop EXCEPT ![Len(stack) - 1].count = @ + Top.count,
                                              ![Len(stack) - 1].total = @ + Top.total])
            /\ UNCHANGED << pc, ret >>
       ELSE /\ ret' = << Top.count, Top.total >>
            /\ IF op = "full"
               THEN stack' = << >> /\ pc' = "full_link"
               ELSE IF WalksAfterScan(Top.count)
               THEN stack' = << Frame("walk", P_root) >> /\ pc' = "walking"
               ELSE stack' = << >> /\ pc' = "done"
    /\ UNCHANGED << inputs, fs, dl, faults, exc, hist >>

\* -------------------------------------------------- yd_get_and_store_dir
\* processor.py:574-597: the listing request and resp.json()
WalkFetch ==
    /\ Running /\ Top.fn = "walk" /\ Top.pos = "fetch"
    /\ \E o \in GetOutcomes(ListEv("walk", Top.path), faults) :
         \/ /\ o.final = "ok"
            /\ faults' = faults - o.cost
            /\ hist' = hist \o o.evs
            /\ stack' = SetTop([Top EXCEPT !.pos = "mkdir",
                                           !.listing = remote[Top.path],
                                           !.text = Body(Top.path)])
            /\ UNCHANGED << pc, exc, ret >>
         \/ /\ o.final = "ok" /\ faults - o.cost >= 1
            /\ faults' = faults - o.cost - 1
            /\ hist' = hist \o o.evs \o Raising("walk", Top.path, "ValueError") \o Caught("ValueError")
            /\ Unwind("ValueError")
         \/ /\ o.final # "ok"
            /\ faults' = faults - o.cost
            /\ hist' = hist \o o.evs \o Raising("walk", Top.path, o.final) \o Caught(o.final)
            /\ Unwind(o.final)
    /\ UNCHANGED << inputs, fs, dl >>

\* processor.py:599-611: dir_path is built and created.  os.makedirs raises
\* when a component is a regular file, or when a directory it has to create
\* cannot be created (the injected disturbance).
WalkMkdir ==
    /\ Running /\ Top.fn = "walk" /\ Top.pos = "mkdir"
    /\ LET dir_path == DirPath(output, Top.path)
       IN  \/ /\ ~MakedirsRaises(fs, dir_path)
              /\ fs' = Makedirs(fs, dir_path)
              /\ hist' = Append(hist, MkdirEv(dir_path))
              /\ stack' = SetTop([Top EXCEPT !.pos = "meta"])
              /\ UNCHANGED << pc, exc, ret, faults >>
           \/ /\ MakedirsRaises(fs, dir_path) \/ (faults >= 1 /\ ~IsDir(fs, dir_path))
              /\ faults' = IF MakedirsRaises(fs, dir_path) THEN faults ELSE faults - 1
              /\ hist' = hist \o Raising("walk", Top.path, "OSError") \o Caught("OSError")
              /\ Unwind("OSError")
              /\ UNCHANGED fs
    /\ UNCHANGED << inputs, dl >>

\* What is written to _metadata.json: f.write(resp.text)
MetadataText(f) == f.text

\* processor.py:613-626: the snapshot is written when it is due; a call that
\* is not iterative returns the parsed listing.  open raises when the file
\* cannot be opened for writing (a directory of that name, or the
\* disturbance).
WalkMetaWhen(due) ==
    /\ Running /\ Top.fn = "walk" /\ Top.pos = "meta"
    /\ LET metadata_file == MetadataFile(DirPath(output, Top.path))
       IN  \/ /\ ~due
              /\ IF iterative
                 THEN stack' = SetTop([Top EXCEPT !.pos = "loop"]) /\ UNCHANGED pc
                 ELSE stack' = << >> /\ pc' = "done"
              /\ UNCHANGED << fs, hist, exc, ret, faults >>
           \/ /\ due /\ ~OpenRaises(fs, metadata_file)
              /\ fs' = WriteText(OpenTruncate(fs, metadata_file), metadata_file,
                                 MetadataText(Top))
              /\ hist' = Append(hist, MetaEv(metadata_file, Top.path, MetadataText(Top)))
              /\ IF iterative
                 THEN stack' = SetTop([Top EXCEPT !.pos = "loop"]) /\ UNCHANGED pc
                 ELSE stack' = << >> /\ pc' = "done"
              /\ UNCHANGED << exc, ret, faults >>
           \/ /\ due /\ (OpenRaises(fs, metadata_file) \/ faults >= 1)
              /\ faults' = IF OpenRaises(fs, metadata_file) THEN faults ELSE faults - 1
              /\ hist' = hist \o Raising("walk", Top.path, "IOError") \o Caught("IOError")
              /\ Unwind("IOError")
              /\ UNCHANGED fs
    /\ UNCHANGED << inputs, dl >>

\* a walker that leaves the snapshot out in metadata-only mode
WalkMetaUnlessNofiles == WalkMetaWhen(~nofiles)

\* a walker that writes the snapshot only when it does not recurse
WalkMetaUnlessIterative == WalkMetaWhen(~iterative)

\* processor.py:613-626: the write stands under no condition
WalkMeta == WalkMetaWhen(TRUE)

\* a walker that takes a local file for stored only when it has the size
\* the listing gives
AlreadyStoredOfSize(row) ==
    LET p == FullFilePath(output, row.path)
    IN  /\ Exists(fs, p) /\ update
        /\ Len(fs[p].text) + Len(fs[p].data) = SizeOf(row)

\* processor.py:674: os.path.exists(full_file_path) and update
AlreadyStored(row) == Exists(fs, FullFilePath(output, row.path)) /\ update

\* a walker that forgets nofiles when it decides on a download
WalkDownloadsAnyway(row) == ~AlreadyStored(row)

\* processor.py:661-692: a file row.  TRUE when get_file is to be called.
WalkDownloads(row) == ~nofiles /\ ~AlreadyStored(row)

\* processor.py:629-692: one round of the for loop
WalkEntry ==
    /\ Running /\ Top.fn = "walk" /\ Top.pos = "loop"
    /\ Top.i <= Len(Top.listing.items)
    /\ LET row == Top.listing.items[Top.i]
       IN  IF ~HasPath(row)
           THEN /\ stack' = Continue(stack)
                /\ UNCHANGED << pc, exc, ret, hist, dl, fs >>
           ELSE IF "type" \notin row.keys
           THEN /\ hist' = hist \o Raising("walk", Top.path, "KeyError") \o Caught("KeyError")
                /\ Unwind("KeyError")
                /\ UNCHANGED << dl, fs >>
           ELSE IF row.type = "dir"
           THEN /\ IF MakedirsRaises(fs, DirPath(output, Top.path))
                   THEN /\ stack' = Continue(stack)
                        /\ hist' = Append(hist, LogEv("error", "walk", "OSError"))
                        /\ UNCHANGED fs
                   ELSE IF Overflows(stack)
                   THEN /\ stack' = Continue(stack)
                        /\ fs' = Makedirs(fs, DirPath(output, Top.path))
                        /\ hist' = hist \o Overflown("walk", row.path)
                   ELSE /\ stack' = Append(stack, Frame("walk", row.path))
                        /\ fs' = Makedirs(fs, DirPath(output, Top.path))
                        /\ UNCHANGED hist
                /\ UNCHANGED << pc, exc, ret, dl >>
           ELSE IF row.type = "file" /\ ~nofiles /\ FilePathRaises(output, row.path)
           THEN /\ hist' = hist \o Raising("walk", Top.path, "TypeError") \o Caught("TypeError")
                /\ Unwind("TypeError")
                /\ UNCHANGED << dl, fs >>
           ELSE IF row.type = "file" /\ WalkDownloads(row) /\ "file" \notin row.keys
           THEN /\ stack' = Continue(stack)
                /\ hist' = hist \o IfVerbose("error", "walk", "KeyError")
                /\ UNCHANGED << pc, exc, ret, dl, fs >>
           ELSE IF row.type = "file" /\ WalkDownloads(row)
           THEN /\ dl' = StartDl(row.file, FileDir(output, row.path),
                                 << FileName(output, row.path) >>,
                                 IF "size" \in row.keys THEN row.size ELSE << >>, TRUE)
                /\ hist' = Append(hist, GetFileEv(dl'.url, dl'.filepath, dl'.filename,
                                                  dl'.filesize))
                /\ UNCHANGED << stack, pc, exc, ret, fs >>
           ELSE /\ stack' = Continue(stack)
                /\ UNCHANGED << pc, exc, ret, hist, dl, fs >>
    /\ UNCHANGED << inputs, faults >>

\* processor.py:694: return None
WalkReturn ==
    /\ Running /\ Top.fn = "walk" /\ Top.pos = "loop"
    /\ Top.i > Len(Top.listing.items)
    /\ IF Len(stack) > 1
       THEN stack' = Continue(Pop) /\ UNCHANGED pc
       ELSE stack' = << >> /\ pc' = "done"
    /\ UNCHANGED << inputs, fs, dl, faults, exc, ret, hist >>

\* ---------------------------------------------------------------- get_file
\* config.chunk_size (32 KB), in units of 16 KB
DEFAULT_CHUNK_SIZE == 2

\* page.iter_content(chunk_size=DEFAULT_CHUNK_SIZE)
RECURSIVE Chunks(_)
Chunks(bytes) ==
    IF bytes = << >>
    THEN << >>
    ELSE IF Len(bytes) <= DEFAULT_CHUNK_SIZE
         THEN << bytes >>
         ELSE << SubSeq(bytes, 1, DEFAULT_CHUNK_SIZE) >>
              \o Chunks(SubSeq(bytes, DEFAULT_CHUNK_SIZE + 1, Len(bytes)))

\* The Content-Disposition header of an answer: << >> when absent, else
\* << value >>, the value being the string cut in the pieces the parse
\* tells apart: the text "filename=", a double quote, a byte that is no
\* UTF-8, and any other run of characters.
NoHeader == << >>

QUOTE == "\""

\* a byte, as latin-1 gives it back, that utf-8 cannot decode
BadByte == "0xFF"

\* re.findall("filename=(.+)", value)[0]: all that follows the first
\* "filename=" that has something after it, to the end of the value; << >>
\* stands for the IndexError of no match
FindFilename(value) ==
    LET at == { i \in DOMAIN value : value[i] = "filename=" /\ i < Len(value) }
    IN  IF at = {} THEN << >>
        ELSE SubSeq(value, (CHOOSE i \in at : \A j \in at : i <= j) + 1, Len(value))

\* str.strip('"'): the double quotes at both ends are dropped
StripQuotes(s) ==
    LET kept == { k \in DOMAIN s : s[k] # QUOTE }
    IN  IF kept = {} THEN << >>
        ELSE SubSeq(s, CHOOSE k \in kept : \A j \in kept : k <= j,
                       CHOOSE k \in kept : \A j \in kept : k >= j)

\* .encode("latin-1").decode("utf-8") does not raise UnicodeDecodeError
Decodes(s) == \A k \in DOMAIN s : s[k] # BadByte

\* url.split("/")[-1]
UrlLast(url) == << url[Len(url)] >>

\* processor.py:150-164: fname when no filename is given
HeaderName(cd, url) ==
    IF cd = NoHeader
    THEN UrlLast(url)
    ELSE LET found == FindFilename(cd[1])
         IN  IF found = << >> \/ ~Decodes(StripQuotes(found))
             THEN UrlLast(url)
             ELSE StripQuotes(found)

\* processor.py:159-162: what is logged when the header gives no name and
\* the last segment of the URL is taken
HeaderCaught(filename, cd) ==
    IF filename # NoPath \/ cd = NoHeader THEN << >>
    ELSE LET found == FindFilename(cd[1])
         IN  IF found = << >> THEN IfVerbose("warning", "get_file", "IndexError")
             ELSE IF ~Decodes(StripQuotes(found))
             THEN IfVerbose("warning", "get_file", "UnicodeDecodeError")
             ELSE << >>

\* processor.py:150-170: the destination (filename after the block)
Destination(filename, filepath, cd, url) ==
    IF filename = NoPath
    THEN Join(filepath, HeaderName(cd, url))
    ELSE filepath \o filename

\* a getsize that takes every local file for empty
GetSizeZero(f, p) == 0

\* os.path.getsize: of a directory it is a positive number that depends on
\* the file system
GetSize(f, p) == IF f[p].kind = "dir" THEN 1 ELSE Len(f[p].text) + Len(f[p].data)

\* a resume that asks for the file from its first byte
RangeHeaderFromStart(existing_size) == << 0 >>

\* headers["Range"] = f"bytes={existing_size}-"
RangeHeader(existing_size) == << existing_size >>

\* a download that always opens its destination anew
OpenModeTruncating(existing_size, resume) == "wb"

\* mode = "ab" if existing_size > 0 and resume else "wb"
OpenMode(existing_size, resume) == IF existing_size > 0 /\ resume THEN "ab" ELSE "wb"

\* The bytes a server answers a ranged request with: the rest of the file
\* from the offset on (<< "416" >>: no such range), or, from a server that
\* ignores Range, the whole file.
RangeAnswers(offset) ==
    (IF "rest" \in env.range
     THEN { IF offset < Len(content)
            THEN << "ok", SubSeq(content, offset + 1, Len(content)) >>
            ELSE << "416", << >> >> }
     ELSE { })
    \cup
    (IF "whole" \in env.range THEN { << "ok", content >> } ELSE { })

\* a get_file whose exception is logged and passed over by its caller
DlRaiseLogged(e) ==
    /\ dl' = [dl EXCEPT !.pos = "idle"]
    /\ IF stack # << >>
       THEN stack' = Continue(stack) /\ UNCHANGED << pc, exc >>
       ELSE pc' = "done" /\ UNCHANGED << stack, exc >>

\* An exception e leaves get_file: the walker catches it and goes on with
\* its next row (processor.py:689-692); any other caller gets it.
DlRaise(e) ==
    /\ dl' = [dl EXCEPT !.pos = "idle"]
    /\ IF stack # << >>
       THEN stack' = Continue(stack) /\ UNCHANGED << pc, exc >>
       ELSE pc' = "raised" /\ exc' = e /\ UNCHANGED stack

\* processor.py:108-170 and 174: the first request, without Range, and the
\* destination
DlGet ==
    /\ dl.pos = "get"
    /\ \E o \in GetOutcomes(GetEv(dl.url, << >>), faults) :
         /\ faults' = faults - o.cost
         /\ IF o.final = "ok"
            THEN LET dest == Destination(dl.filename, dl.filepath, env.cd, dl.url)
                 IN  /\ dl' = [dl EXCEPT !.dest = dest, !.body = Chunks(content),
                                  !.pos = IF dl.resume /\ dest # NoPath /\ Exists(fs, dest)
                                          THEN "resume" ELSE "open"]
                     /\ hist' = hist \o o.evs \o HeaderCaught(dl.filename, env.cd)
                     /\ UNCHANGED << stack, pc, exc >>
            ELSE /\ hist' = hist \o o.evs \o Raising("get_file", NoPath, o.final)
                            \o DlCaught(o.final)
                 /\ DlRaise(o.final)
    /\ UNCHANGED << inputs, fs, ret >>

\* processor.py:175-219: the answer is closed and the request sent again
\* with Range
DlResume ==
    /\ dl.pos = "resume"
    /\ LET existing_size == GetSize(fs, dl.dest)
           req == GetEv(dl.url, RangeHeader(existing_size))
       IN  \E o \in GetOutcomes(req, faults), a \in RangeAnswers(req.o[1]) :
             /\ faults' = faults - o.cost
             /\ IF o.final = "ok" /\ a[1] = "ok"
                THEN /\ dl' = [dl EXCEPT !.existing = existing_size, !.range = req.o,
                                         !.body = Chunks(a[2]), !.pos = "open"]
                     /\ hist' = hist \o << CloseEv >> \o o.evs
                     /\ UNCHANGED << stack, pc, exc >>
                ELSE IF o.final = "ok"
                THEN /\ hist' = hist \o << CloseEv >>
                                \o SubSeq(o.evs, 1, Len(o.evs) - 1)
                                \o << ReplyEv("416", << >>) >>
                                \o Raising("get_file", dl.dest, "HTTPError")
                                \o DlCaught("HTTPError")
                     /\ DlRaise("HTTPError")
                ELSE /\ hist' = hist \o << CloseEv >> \o o.evs
                                \o Raising("get_file", dl.dest, o.final) \o DlCaught(o.final)
                     /\ DlRaise(o.final)
    /\ UNCHANGED << inputs, fs, ret >>

\* processor.py:221-228: os.makedirs(filepath, exist_ok=True) when a
\* directory is given
DlDirs(f, filepath) == IF filepath # NoPath THEN Makedirs(f, filepath) ELSE f

\* open(filename, mode)
DlOpened(f, dest, mode) == IF mode = "ab" THEN OpenAppend(f, dest) ELSE OpenTruncate(f, dest)

\* processor.py:221-252: the directory is created and the file opened,
\* total = existing_size
DlOpen ==
    /\ dl.pos = "open" /\ ~dl.aria2
    /\ LET mode == OpenMode(dl.existing, dl.resume)
           made == DlDirs(fs, dl.filepath)
       IN  IF dl.filepath # NoPath /\ MakedirsRaises(fs, dl.filepath)
           THEN /\ hist' = hist \o Raising("get_file", dl.dest, "OSError") \o DlCaught("OSError")
                /\ DlRaise("OSError")
                /\ UNCHANGED fs
           ELSE IF OpenRaises(made, dl.dest)
           THEN /\ hist' = hist \o Raising("get_file", dl.dest, "IOError") \o DlCaught("IOError")
                /\ DlRaise("IOError")
                /\ fs' = made
           ELSE /\ fs' = DlOpened(made, dl.dest, mode)
                /\ dl' = [dl EXCEPT !.pos = "write", !.mode = mode,
                                    !.total = dl.existing, !.k = 1]
                /\ UNCHANGED << stack, pc, exc, hist >>
    /\ UNCHANGED << inputs, faults, ret >>

\* processor.py:258-262: one chunk is written: if line: f.write(line);
\* total += len(line).  The write may fail (IOError) and the stream may
\* break (a RequestException out of iter_content); what was written stays.
DlChunk ==
    /\ dl.pos = "write" /\ dl.k <= Len(dl.body)
    /\ \/ /\ fs' = IF dl.body[dl.k] # << >> THEN Write(fs, dl.dest, dl.body[dl.k]) ELSE fs
          /\ dl' = [dl EXCEPT !.total = @ + Len(dl.body[dl.k]), !.k = @ + 1]
          /\ UNCHANGED << stack, pc, exc, hist, faults >>
       \/ /\ faults >= 1
          /\ faults' = faults - 1
          /\ \E e \in {"IOError", "RequestException"} :
               /\ hist' = hist \o Raising("get_file", dl.dest, e) \o DlCaught(e)
               /\ DlRaise(e)
          /\ UNCHANGED fs
    /\ UNCHANGED << inputs, ret >>

\* How the helper process may end: exit status 0, another exit status, no
\* end within the timeout, no executable at aria2path
HelperEnds == { "ok", "CalledProcessError", "TimeoutExpired", "FileNotFoundError" }

\* the helper's failures that get_file logs before it raises them again
\* (processor.py:294-301); subprocess.TimeoutExpired passes through
HelperLogged == { "CalledProcessError", "FileNotFoundError" }

\* processor.py:281-301: subprocess.run(..., check=True, timeout=3600)
\* raises unless the helper exits with status 0
HelperRaises(r) == r # "ok"

\* subprocess.run([aria2path, ..., url]) for the destination, and how it ends
RunEv(r, url, dest) == Ev("run", r, url, dest, NoPath, 0, << >>)

\* processor.py:221-228, 273-301: aria2 is asked for.  The directory is
\* created, then a missing aria2path raises ValueError; else the helper is
\* run on the url with the directory and the name of the destination, and
\* what it leaves at the destination when it exits with status 0 is the
\* content.
DlAria2 ==
    /\ dl.pos = "open" /\ dl.aria2
    /\ LET made == DlDirs(fs, dl.filepath)
       IN  IF dl.filepath # NoPath /\ MakedirsRaises(fs, dl.filepath)
           THEN /\ hist' = hist \o Raising("get_file", dl.dest, "OSError") \o DlCaught("OSError")
                /\ DlRaise("OSError")
                /\ UNCHANGED fs
           ELSE IF dl.aria2path = << >>
           THEN /\ hist' = Append(hist, RaiseEv("get_file", dl.dest, "ValueError"))
                /\ DlRaise("ValueError")
                /\ fs' = made
           ELSE \E r \in HelperEnds :
                  /\ r = "ok" => ~OpenRaises(made, dl.dest)
                  /\ IF HelperRaises(r)
                     THEN /\ hist' = hist \o << RunEv(r, dl.url, dl.dest) >>
                                     \o (IF r \in HelperLogged
                                         THEN Raising("get_file", dl.dest, r)
                                         ELSE << RaiseEv("get_file", dl.dest, r) >>)
                          /\ DlRaise(r)
                          /\ fs' = made
                     ELSE /\ hist' = Append(hist, RunEv(r, dl.url, dl.dest))
                          /\ fs' = IF r # "ok" THEN made
                                   ELSE IF content # << >>
                                   THEN Write(OpenTruncate(made, dl.dest), dl.dest, content)
                                   ELSE OpenTruncate(made, dl.dest)
                          /\ dl' = [dl EXCEPT !.pos = "idle"]
                          /\ IF stack # << >>
                             THEN stack' = Continue(stack) /\ UNCHANGED pc
                             ELSE pc' = "done" /\ UNCHANGED stack
                          /\ UNCHANGED exc
    /\ UNCHANGED << inputs, faults, ret >>

\* get_file returns
DlDone ==
    /\ dl.pos = "write" /\ dl.k > Len(dl.body)
    /\ dl' = [dl EXCEPT !.pos = "idle"]
    /\ IF stack # << >>
       THEN stack' = Continue(stack) /\ UNCHANGED pc
       ELSE pc' = "done" /\ UNCHANGED stack
    /\ UNCHANGED << inputs, fs, faults, exc, ret, hist >>

\* ------------------------------------------------------------ yd_get_full
\* yd_get_full is not running
NoFull ==
    [output |-> << >>, filename |-> << >>, metadata |-> FALSE,
     resource |-> [keys |-> {}, type |-> "", size |-> << >>],
     link |-> [keys |-> {}, href |-> NoUrl, size |-> << >>],
     data |-> FALSE]

\* "if output:" — the argument is neither None (<< >>) nor ""
Given(out) == out # << >> /\ out[1] # << >>

\* id = url.rsplit("/", 1)[-1] of https://disk.yandex.ru/d/test123
ResourceId == Seg("test123")

\* output after "if output is None: output = id"
OutputOr(out) == IF out = << >> THEN ResourceId ELSE out[1]

\* filename after "if filename is None: filename = 'dump.zip'"
FilenameOr(filename) == IF filename = << >> THEN << Seg("dump.zip") >> ELSE filename

\* resp.text of the resource's metadata
ResourceText == << "raw", << Seg("resource") >> >>

\* session.get(YD_API, params={"public_key": url})
ResourceEv == Ev("resource", "full", NoUrl, NoPath, NoPath, 0, << >>)
\* session.get(YD_API_DOWNLOAD, params={"public_key": url})
LinkEv == Ev("link", "full", NoUrl, NoPath, NoPath, 0, << >>)
\* an exception e caught and passed over inside fn
CaughtEv(fn, e) == Ev("caught", e, NoUrl, NoPath, << << fn >> >>, 0, << >>)

\* An exception e leaves yd_get_full
FullRaise(e) ==
    /\ hist' = hist \o Raising("full", NoPath, e)
    /\ pc' = "raised" /\ exc' = e

\* What yd_get_full raises when the link answer has no href
NoDownloadUrl == "ValueError: No download URL found"

\* processor.py:320-326: the output directory is created when one is given
FullMkdir ==
    /\ pc = "full_start"
    /\ IF Given(full.output)
       THEN LET dir == << full.output[1] >>
            IN  \/ /\ ~MakedirsRaises(fs, dir)
                   /\ fs' = Makedirs(fs, dir)
                   /\ hist' = Append(hist, MkdirEv(dir))
                   /\ pc' = "full_meta"
                   /\ UNCHANGED << exc, faults >>
                \/ /\ MakedirsRaises(fs, dir) \/ (faults >= 1 /\ ~IsDir(fs, dir))
                   /\ faults' = IF MakedirsRaises(fs, dir) THEN faults ELSE faults - 1
                   /\ FullRaise("OSError")
                   /\ UNCHANGED fs
       ELSE pc' = "full_meta" /\ UNCHANGED << fs, hist, exc, faults >>
    /\ UNCHANGED << args, full, stack, dl, ret >>

\* processor.py:332-341, 355-358: the metadata request; a body that does
\* not parse is passed over and metadata_data stays None
FullMeta ==
    /\ pc = "full_meta"
    /\ \E o \in GetOutcomes(ResourceEv, faults) :
         \/ /\ o.final = "ok"
            /\ faults' = faults - o.cost
            /\ hist' = hist \o o.evs
            /\ full' = [full EXCEPT !.data = (full.resource.keys # {})]
            /\ pc' = "full_save"
            /\ UNCHANGED exc
         \/ /\ o.final = "ok" /\ faults - o.cost >= 1
            /\ faults' = faults - o.cost - 1
            /\ hist' = hist \o o.evs \o << CaughtEv("full", "JSONDecodeError") >>
            /\ full' = [full EXCEPT !.data = FALSE]
            /\ pc' = "full_save"
            /\ UNCHANGED exc
         \/ /\ o.final # "ok"
            /\ faults' = faults - o.cost
            /\ hist' = hist \o o.evs \o Raising("full", NoPath, o.final)
            /\ pc' = "raised" /\ exc' = o.final
            /\ UNCHANGED full
    /\ UNCHANGED << args, fs, stack, dl, ret >>

\* processor.py:343-354: the body is saved when metadata and output are set
FullSave ==
    /\ pc = "full_save"
    /\ IF full.metadata /\ Given(full.output)
       THEN LET metadata_file == MetadataFile(<< full.output[1] >>)
            IN  \/ /\ ~OpenRaises(fs, metadata_file)
                   /\ fs' = WriteText(OpenTruncate(fs, metadata_file), metadata_file,
                                      ResourceText)
                   /\ hist' = Append(hist, MetaEv(metadata_file, NoPath, ResourceText))
                   /\ pc' = "full_stats"
                   /\ UNCHANGED << exc, faults >>
                \/ /\ OpenRaises(fs, metadata_file) \/ faults >= 1
                   /\ faults' = IF OpenRaises(fs, metadata_file) THEN faults ELSE faults - 1
                   /\ FullRaise("IOError")
                   /\ UNCHANGED fs
       ELSE pc' = "full_stats" /\ UNCHANGED << fs, hist, exc, faults >>
    /\ UNCHANGED << args, full, stack, dl, ret >>

\* a resource type that is never looked up: every resource is a file
ResourceTypeOfFile(resource) == "file"

\* resource_type = metadata_data.get("type", "file")
ResourceType(resource) == IF "type" \in resource.keys THEN resource.type ELSE "file"

\* processor.py:371-398: the tree of a directory is scanned for the report
FullStats ==
    /\ pc = "full_stats"
    /\ IF full.data /\ ResourceType(full.resource) = "dir"
       THEN stack' = << Frame("scan", P_root) >> /\ pc' = "scanning"
       ELSE pc' = "full_link" /\ UNCHANGED stack
    /\ UNCHANGED << args, full, fs, dl, faults, exc, ret, hist >>

\* processor.py:419-423: filesize
FullFilesize(link, resource, data) ==
    IF "size" \in link.keys THEN link.size
    ELSE IF data /\ "size" \in resource.keys THEN resource.size
    ELSE << >>

\* filepath=output as get_file takes it: of "" it makes neither a directory
\* nor a prefix of the file name, as of None
FullFilepath(out) == IF out = << >> THEN NoPath ELSE << out >>

\* a check that takes any parsed answer for a link
HasHrefAssumed(link) == TRUE

\* processor.py:417: "href" in data.keys()
HasHref(link) == "href" \in link.keys

\* processor.py:407-415: what leaves yd_get_full when resp.json() of the
\* link answer raises. The call stands inside the try whose first clause is
\* "except requests.exceptions.RequestException: raise": the JSONDecodeError
\* of requests (a RequestException since requests 2.27) leaves unchanged by
\* that clause; the one of json (older requests) reaches the second clause
\* and becomes ValueError("Invalid response from API")
LinkParseRaises == { "JSONDecodeError", "ValueError" }

\* processor.py:400-435: the download link is asked for and get_file called
FullLink ==
    /\ pc = "full_link"
    /\ \E o \in GetOutcomes(LinkEv, faults) :
         \/ /\ o.final = "ok" /\ HasHref(full.link)
            /\ faults' = faults - o.cost
            /\ dl' = StartDl(full.link.href, FullFilepath(output),
                             FilenameOr(full.filename),
                             FullFilesize(full.link, full.resource, full.data), TRUE)
            /\ hist' = hist \o o.evs
                       \o << GetFileEv(dl'.url, dl'.filepath, dl'.filename, dl'.filesize) >>
            /\ pc' = "downloading"
            /\ UNCHANGED exc
         \/ /\ o.final = "ok" /\ ~HasHref(full.link)
            /\ faults' = faults - o.cost
            /\ hist' = hist \o o.evs \o Raising("full", NoPath, NoDownloadUrl)
            /\ pc' = "raised" /\ exc' = NoDownloadUrl
            /\ UNCHANGED dl
         \/ /\ o.final = "ok" /\ faults - o.cost >= 1
            /\ faults' = faults - o.cost - 1
            /\ \E e \in LinkParseRaises :
                 /\ hist' = hist \o o.evs \o Raising("full", NoPath, e)
                 /\ pc' = "raised" /\ exc' = e
            /\ UNCHANGED dl
         \/ /\ o.final # "ok"
            /\ faults' = faults - o.cost
            /\ hist' = hist \o o.evs \o Raising("full", NoPath, o.final)
            /\ pc' = "raised" /\ exc' = o.final
            /\ UNCHANGED dl
    /\ UNCHANGED << args, full, fs, stack, ret >>

\* ---------------------------------------------------------- Project.__store
\* processor.py:765-798: the output root is created; unless nofiles, the
\* scan runs first; the walk follows (see ScanReturn and Unwind for what
\* follows the scan)
Store ==
    /\ pc = "start"
    /\ LET metapath == << output >>
       IN  \/ /\ ~MakedirsRaises(fs, metapath)
              /\ fs' = Makedirs(fs, metapath)
              /\ IF ~nofiles
                 THEN stack' = << Frame("scan", P_root) >> /\ pc' = "scanning"
                 ELSE stack' = << Frame("walk", P_root) >> /\ pc' = "walking"
              /\ UNCHANGED << exc, faults, hist >>
           \/ /\ MakedirsRaises(fs, metapath) \/ (faults >= 1 /\ ~IsDir(fs, metapath))
              /\ faults' = IF MakedirsRaises(fs, metapath) THEN faults ELSE faults - 1
              /\ hist' = hist \o Raising("store", metapath, "OSError")
              /\ pc' = "raised" /\ exc' = "OSError"
              /\ UNCHANGED << fs, stack >>
    /\ UNCHANGED << inputs, dl, ret >>

\* ------------------------------------------------------------ the program
\* The first n bytes of a remote file, each byte named by its place
RemoteBytes(n) == [k \in 1..n |-> << "b", k >>]

\* n bytes of a local file left by an earlier run
LocalBytes(n) == [k \in 1..n |-> << "p", k >>]

\* Local trees a run may start from: nothing there, or the output root with
\* a/f1.txt downloaded in part
InitialFs ==
    { << >>,
      (<< Seg("out") >> :> DirNode)
      @@ (<< Seg("out"), Seg("a") >> :> DirNode)
      @@ (<< Seg("out"), Seg("a"), Seg("f1.txt") >> :> FileNode(<< >>, LocalBytes(1))) }

\* A run of the tree operations: the remote tree, the flags and the local
\* tree are any of the above; the server fails a request by not answering
\* and its 429 answers carry Retry-After: 10
InitTree ==
    /\ remote \in RemoteTrees
    /\ (~HasDir(remote[P_root]) => remote[P_d] = NoEmbedded)
    /\ output = Seg("out")
    /\ update \in BOOLEAN
    /\ nofiles \in BOOLEAN
    /\ content = RemoteBytes(2)
    /\ config = DefaultConfig
    /\ env = [ra |-> { << 10 >> }, bad |-> { "exc" }, cd |-> NoHeader,
              range |-> { "rest", "whole" }]
    /\ fs \in InitialFs
    /\ fs0 = fs
    /\ full = NoFull
    /\ dl = NoDl
    /\ faults = MaxFaults
    /\ exc = ""
    /\ ret = << 0, 0 >>
    /\ hist = << >>
    /\ argv = NoArgv
    /\ tx = NoTx

\* Project.sync(url, output, update, nofiles) is called
Init ==
    /\ InitTree
    /\ verbose = FALSE
    /\ op = "sync"
    /\ iterative = TRUE
    /\ stack = << >>
    /\ pc = "start"

Download == DlGet \/ DlResume \/ DlOpen \/ DlChunk \/ DlDone

Walk == WalkFetch \/ WalkMkdir \/ WalkMeta \/ WalkEntry \/ WalkReturn

Scan == ScanFetch \/ ScanEntry \/ ScanReturn

Next == Store \/ Scan \/ Walk \/ Download

\* Project.sync
Spec == Init /\ [][Next]_vars

\* yd_get_and_store_dir(url, "", output, update, nofiles, iterative) is called
InitWalk ==
    /\ InitTree
    /\ verbose = FALSE
    /\ op = "walk"
    /\ iterative \in BOOLEAN
    /\ stack = << Frame("walk", P_root) >>
    /\ pc = "walking"

NextWalk == Walk \/ Download

\* yd_get_and_store_dir
SpecWalk == InitWalk /\ [][NextWalk]_vars

Full == FullMkdir \/ FullMeta \/ FullSave \/ FullStats \/ FullLink

\* The metadata a resource may have: a directory, a file with or without
\* size, an empty object
Resources ==
    { [keys |-> {"type"}, type |-> "dir", size |-> << >>],
      [keys |-> {"type", "size"}, type |-> "file", size |-> << 5 >>],
      [keys |-> {"size"}, type |-> "", size |-> << 5 >>],
      [keys |-> {}, type |-> "", size |-> << >>] }

\* The answers of the download-link endpoint: {"href": ..., "size": 9},
\* {"href": ...}, {}
Links ==
    { [keys |-> {"href", "size"}, href |-> Url("zip"), size |-> << 9 >>],
      [keys |-> {"href"}, href |-> Url("zip"), size |-> << >>],
      [keys |-> {}, href |-> NoUrl, size |-> << >>] }

\* yd_get_full(url, output, filename, metadata): output is None, "" or
\* "out"; filename is None or "t.txt"
FullCalls ==
    { [NoFull EXCEPT !.output = o, !.filename = f, !.metadata = m,
                     !.resource = r, !.link = l] :
        o \in { << >>, << << >> >>, << Seg("out") >> },
        f \in { << >>, << Seg("t.txt") >> },
        m \in BOOLEAN, r \in Resources, l \in Links }

\* Local trees yd_get_full may start in: nothing there, or out with a part
\* of dump.zip in it
FullInitialFs ==
    { << >>,
      (<< Seg("out") >> :> DirNode)
      @@ (<< Seg("out"), Seg("dump.zip") >> :> FileNode(<< >>, LocalBytes(1))) }

\* The remote trees the top-level operations are run on here
FewTrees ==
    { (P_root :> r) @@ (P_d :> s) :
        r \in { NoEmbedded, Listing(TRUE, << D1 >>), Listing(TRUE, << D1, F1 >>) },
        s \in { Listing(TRUE, << F3 >>) } }

\* yd_get_full(url, output, filename, metadata) is called
InitFull ==
    /\ remote \in FewTrees
    /\ full \in FullCalls
    /\ output = OutputOr(full.output)
    /\ update = FALSE
    /\ nofiles = FALSE
    /\ iterative = TRUE
    /\ op = "full"
    /\ content = RemoteBytes(2)
    /\ config = DefaultConfig
    /\ env = [ra |-> { << 10 >> }, bad |-> { "exc" }, cd |-> NoHeader,
              range |-> { "rest", "whole" }]
    /\ fs \in FullInitialFs
    /\ fs0 = fs
    /\ stack = << >>
    /\ dl = NoDl
    /\ pc = "full_start"
    /\ faults = MaxFaults
    /\ exc = ""
    /\ ret = << 0, 0 >>
    /\ hist = << >>
    /\ argv = NoArgv
    /\ tx = NoTx

\* Project.sync on one of the few trees
InitSyncFew == Init /\ remote \in FewTrees

InitProject == (InitFull /\ verbose = FALSE) \/ InitSyncFew

NextProject == Full \/ Next

\* Project.full and Project.sync
SpecProject == InitProject /\ [][NextProject]_vars

\* The same calls with verbose=True
InitVerbose ==
    /\ \/ InitFull
       \/ /\ InitTree /\ remote \in FewTrees
          /\ op = "sync" /\ iterative = TRUE /\ stack = << >> /\ pc = "start"
    /\ verbose = TRUE

\* Project.full and Project.sync, verbose
SpecVerbose == InitVerbose /\ [][NextProject]_vars

\* ------------------------------------------------------- path mapping runs
\* Longest remote path, in segments, the mapping is run on
MaxSegs == 2

\* The segments a remote path is made of here: "", " ", "a", "a ", " a"
SegPool == { << >>, << SP >>, << "a" >>, << "a", SP >>, << SP, "a" >> }

\* "a//b/ /c" as split on "/"
P_example == << Seg("a"), << >>, Seg("b"), << SP >>, Seg("c") >>

\* The remote path strings: split on "/" a string gives one segment at least
PathPool == (SeqsUpTo(SegPool, MaxSegs) \ { << >> }) \cup { P_example }

\* The entry of a listing with the path p that the mapping is run on
MapFile(p) == Entry(AllKeys, p, "file", Url("x"), << 1 >>)
MapDir(p) == Entry({"path", "type"}, p, "dir", << >>, << >>)
\* A second file entry of the same listing
MapOther(q) == Entry(AllKeys, q, "file", Url("y"), << 1 >>)

\* Root listings of one entry of any path, or of that entry and a file at
\* "a" or at "a/a"; a directory entry has an empty listing of its own
MapTrees ==
    LET others == { << >> } \cup { << MapOther(q) >> : q \in { << Seg("a") >>, << Seg("a"), Seg("a") >> } }
    IN  { (P_root :> Listing(TRUE, << MapFile(p) >> \o o)) : p \in PathPool, o \in others }
        \cup
        { (P_root :> Listing(TRUE, << MapDir(p) >> \o o)) @@ (p :> Listing(TRUE, << >>)) :
            p \in PathPool \ { P_root }, o \in others }

\* Local trees the mapping runs start in: nothing there, or out/a/a left by
\* an earlier run, as a file or as a directory
MapInitialFs ==
    { << >>,
      (<< Seg("out") >> :> DirNode)
      @@ (<< Seg("out"), Seg("a") >> :> DirNode)
      @@ (<< Seg("out"), Seg("a"), Seg("a") >> :> FileNode(<< >>, LocalBytes(1))),
      (<< Seg("out") >> :> DirNode)
      @@ (<< Seg("out"), Seg("a") >> :> DirNode)
      @@ (<< Seg("out"), Seg("a"), Seg("a") >> :> DirNode) }

\* Project.sync on one of these trees, with no disturbance
InitMap ==
    /\ remote \in MapTrees
    /\ output = Seg("out")
    /\ update \in BOOLEAN
    /\ nofiles = FALSE
    /\ iterative = TRUE
    /\ op = "sync"
    /\ content = RemoteBytes(2)
    /\ config = DefaultConfig
    /\ env = [ra |-> { << 10 >> }, bad |-> { "exc" }, cd |-> NoHeader,
              range |-> { "rest", "whole" }]
    /\ fs \in MapInitialFs
    /\ fs0 = fs
    /\ full = NoFull
    /\ stack = << >>
    /\ dl = NoDl
    /\ pc = "start"
    /\ faults = 0
    /\ exc = ""
    /\ ret = << 0, 0 >>
    /\ hist = << >>
    /\ argv = NoArgv
    /\ verbose = FALSE
    /\ tx = NoTx

\* Project.sync, run for its path mapping
SpecMap == InitMap /\ [][Next]_vars

\* The Content-Disposition headers the file server may send: none;
\* inline; attachment; filename="r.txt"; attachment; filename=r.txt;
\* attachment; filename="<a byte that is no UTF-8>"; attachment; filename=;
\* attachment; filename="r.txt"; size=3
Dispositions ==
    { NoHeader,
      << << "inline" >> >>,
      << << "attachment; ", "filename=", QUOTE, "r.txt", QUOTE >> >>,
      << << "attachment; ", "filename=", "r.txt" >> >>,
      << << "attachment; ", "filename=", QUOTE, BadByte, QUOTE >> >>,
      << << "attachment; ", "filename=" >> >>,
      << << "attachment; ", "filename=", QUOTE, "r.txt", QUOTE, "; size=3" >> >> }

\* The arguments of a direct call get_file(url, filepath, filename,
\* filesize=filesize, resume=resume)
DlCalls ==
    { StartDl(Url("f1"), filepath, filename, filesize, resume) :
        filepath \in { NoPath, << Seg("out") >> },
        filename \in { NoPath, << Seg("t.txt") >> },
        filesize \in { << >>, << 3 >> },
        resume \in BOOLEAN }

\* Local trees a download may start in: the directory given exists; the
\* destination is absent, a regular file of any size up to MaxExisting, or
\* a directory
DlInitialFs(call, cd) ==
    LET dest == Destination(call.filename, call.filepath, cd, call.url)
        base == IF call.filepath = NoPath THEN << >> ELSE (call.filepath :> DirNode)
    IN  { base, (dest :> DirNode) @@ base }
        \cup { (dest :> FileNode(<< >>, LocalBytes(n))) @@ base : n \in 0..MaxExisting }

\* get_file is called directly
InitDL ==
    /\ remote \in { (P_root :> NoEmbedded) @@ (P_d :> NoEmbedded) }
    /\ output = Seg("out")
    /\ update = FALSE
    /\ nofiles = FALSE
    /\ iterative = FALSE
    /\ op = "get_file"
    /\ content \in { RemoteBytes(n) : n \in 0..MaxContent }
    /\ config \in { [DefaultConfig EXCEPT !.retry_backoff_factor = b] : b \in {1, 2} }
    /\ env \in { [ra |-> RetryAfters, bad |-> { "exc", "err" }, cd |-> cd,
                   range |-> { "rest", "whole" }] : cd \in Dispositions }
    /\ dl \in DlCalls
    /\ fs \in DlInitialFs(dl, env.cd)
    /\ fs0 = fs
    /\ full = NoFull
    /\ stack = << >>
    /\ pc = "downloading"
    /\ faults = MaxFaults
    /\ exc = ""
    /\ ret = << 0, 0 >>
    /\ hist = << >>
    /\ argv = NoArgv
    /\ verbose = FALSE
    /\ tx = NoTx

\* get_file
SpecDL == InitDL /\ [][Download]_vars

\* The arguments of a direct call get_file(url, filepath, filename,
\* aria2=aria2, aria2path=aria2path, resume=resume)
Aria2Calls ==
    { [StartDl(Url("f1"), filepath, << Seg("t.txt") >>, << >>, resume)
         EXCEPT !.aria2 = a[1], !.aria2path = a[2]] :
        filepath \in { NoPath, << Seg("out") >> },
        resume \in BOOLEAN,
        a \in { << FALSE, << >> >>, << TRUE, << >> >>, << TRUE, << "aria2c" >> >> } }

\* get_file is called directly, with or without the helper; the directory
\* given may be missing
InitAria2 ==
    /\ remote = (P_root :> NoEmbedded) @@ (P_d :> NoEmbedded)
    /\ output = Seg("out")
    /\ update = FALSE
    /\ nofiles = FALSE
    /\ iterative = FALSE
    /\ op = "get_file"
    /\ content \in { RemoteBytes(n) : n \in 0..MaxContent }
    /\ config = DefaultConfig
    /\ env = [ra |-> RetryAfters, bad |-> { "exc", "err" }, cd |-> NoHeader,
              range |-> { "rest", "whole" }]
    /\ dl \in Aria2Calls
    /\ fs \in DlInitialFs(dl, env.cd) \cup { << >> }
    /\ fs0 = fs
    /\ full = NoFull
    /\ stack = << >>
    /\ pc = "downloading"
    /\ faults = MaxFaults
    /\ exc = ""
    /\ ret = << 0, 0 >>
    /\ hist = << >>
    /\ argv = NoArgv
    /\ verbose \in BOOLEAN
    /\ tx = NoTx

NextAria2 == Download \/ DlAria2

\* get_file with the choice of the transport
SpecAria2 == InitAria2 /\ [][NextAria2]_vars

\* ------------------------------------------------------ paths with ".."
\* the segment ".."
DotDot == Seg("..")

\* The remote path strings with ".." among their segments: "a", "..",
\* "a/a", "a/..", "../a", "../.."
DotPool == SeqsUpTo({ Seg("a"), DotDot }, MaxSegs) \ { << >> }

\* Root listings of one entry of such a path, a file or a directory with
\* one file "<path>/a" in it
DotTrees ==
    { (P_root :> Listing(TRUE, << MapFile(p) >>)) : p \in DotPool }
    \cup
    { (P_root :> Listing(TRUE, << MapDir(p) >>))
      @@ (p :> Listing(TRUE, << MapOther(Append(p, Seg("a"))) >>)) : p \in DotPool }

\* Project.sync on one of these trees, with no disturbance
InitDots ==
    /\ remote \in DotTrees
    /\ output = Seg("out")
    /\ update \in BOOLEAN
    /\ nofiles \in BOOLEAN
    /\ iterative = TRUE
    /\ op = "sync"
    /\ content = RemoteBytes(2)
    /\ config = DefaultConfig
    /\ env = [ra |-> { << 10 >> }, bad |-> { "exc" }, cd |-> NoHeader,
              range |-> { "rest", "whole" }]
    /\ fs \in { << >>, (<< Seg("out") >> :> DirNode),
                 (<< Seg("out") >> :> DirNode)
                 @@ (<< Seg("out"), Seg("a") >> :> FileNode(<< >>, LocalBytes(1))) }
    /\ fs0 = fs
    /\ full = NoFull
    /\ stack = << >>
    /\ dl = NoDl
    /\ pc = "start"
    /\ faults = 0
    /\ exc = ""
    /\ ret = << 0, 0 >>
    /\ hist = << >>
    /\ argv = NoArgv
    /\ verbose = FALSE
    /\ tx = NoTx

\* Project.sync, run on paths with ".."
SpecDots == InitDots /\ [][Next]_vars

\* ------------------------------------------------ listings that lead back
\* the directory row of "d" and of ""
DirRow(p) == Entry({"path", "type"}, p, "dir", << >>, << >>)

\* Remote trees of the directories "" and "d": "d" holds a file, a row for
\* itself or a row for the root, alone or before the file
LoopTrees ==
    { (P_root :> Listing(TRUE, r)) @@ (P_d :> Listing(TRUE, s)) :
        r \in { << D1 >>, << D1, F1 >> },
        s \in { << F3 >>, << DirRow(P_d) >>, << DirRow(P_d), F3 >>,
                << DirRow(P_root) >>, << DirRow(P_root), F3 >> } }

\* Project.sync on one of these trees, with no disturbance
InitLoop ==
    /\ remote \in LoopTrees
    /\ output = Seg("out")
    /\ update \in BOOLEAN
    /\ nofiles \in BOOLEAN
    /\ iterative = TRUE
    /\ op = "sync"
    /\ content = RemoteBytes(2)
    /\ config = DefaultConfig
    /\ env = [ra |-> { << 10 >> }, bad |-> { "exc" }, cd |-> NoHeader,
              range |-> { "rest", "whole" }]
    /\ fs = << >>
    /\ fs0 = fs
    /\ full = NoFull
    /\ stack = << >>
    /\ dl = NoDl
    /\ pc = "start"
    /\ faults = 0
    /\ exc = ""
    /\ ret = << 0, 0 >>
    /\ hist = << >>
    /\ argv = NoArgv
    /\ verbose = FALSE
    /\ tx = NoTx

\* Project.sync on trees with and without a way back
SpecLoop == InitLoop /\ [][Next]_vars

\* every step that can be taken is taken: the program runs on
SpecLoopLive == SpecLoop /\ WF_vars(Next)

\* ------------------------------------------------------- rows out of shape
\* {"path": "f2", "file": ...}: a row with no type
NoTypeRow == Entry({"path", "file"}, P_f2, "", Url("f2"), << >>)

\* {"path": "f2", "type": "file"}: a file row with no download URL
NoFileRow == Entry({"path", "type"}, P_f2, "file", << >>, << >>)

\* {"path": "", "type": "file", ...}: a file row whose path has no segment
\* that is not empty
NoSegmentRow == Entry(AllKeys, P_root, "file", Url("b"), << 1 >>)

BadRows == { NoTypeRow, NoFileRow, NoSegmentRow }

\* Remote trees with a row out of shape, or the file f2, before a file in
\* the root listing or in the listing of "d"
BadTrees ==
    { (P_root :> Listing(TRUE, << b, F1 >>)) @@ (P_d :> NoEmbedded) : b \in BadRows \cup { F2 } }
    \cup
    { (P_root :> Listing(TRUE, << D1 >>)) @@ (P_d :> Listing(TRUE, << b, F3 >>)) :
        b \in BadRows \cup { F2 } }

\* Project.sync on one of these trees, with no disturbance; a/f1.txt may be
\* there from an earlier run
InitRows ==
    /\ remote \in BadTrees
    /\ output = Seg("out")
    /\ update \in BOOLEAN
    /\ nofiles = FALSE
    /\ iterative = TRUE
    /\ op = "sync"
    /\ content = RemoteBytes(2)
    /\ config = DefaultConfig
    /\ env = [ra |-> { << 10 >> }, bad |-> { "exc" }, cd |-> NoHeader,
              range |-> { "rest", "whole" }]
    /\ fs \in { << >>,
                 (<< Seg("out") >> :> DirNode)
                 @@ (<< Seg("out"), Seg("a") >> :> DirNode)
                 @@ (<< Seg("out") >> \o P_a_f1 :> FileNode(<< >>, LocalBytes(1))) }
    /\ fs0 = fs
    /\ full = NoFull
    /\ stack = << >>
    /\ dl = NoDl
    /\ pc = "start"
    /\ faults = 0
    /\ exc = ""
    /\ ret = << 0, 0 >>
    /\ hist = << >>
    /\ argv = NoArgv
    /\ verbose \in BOOLEAN
    /\ tx = NoTx

\* Project.sync on listings with a row out of shape
SpecRows == InitRows /\ [][Next]_vars

\* ------------------------------------------------------- operations repeated
\* get_file(url, 'out', filename='t.txt', resume=resume) is called where
\* out/t.txt is absent or a part left by an earlier run
InitDLOnce ==
    /\ remote \in { (P_root :> NoEmbedded) @@ (P_d :> NoEmbedded) }
    /\ output = Seg("out")
    /\ update = FALSE
    /\ nofiles = FALSE
    /\ iterative = FALSE
    /\ op = "get_file"
    /\ content \in { RemoteBytes(n) : n \in 1..MaxContent }
    /\ config = DefaultConfig
    /\ env = [ra |-> { << 10 >> }, bad |-> { "exc" }, cd |-> NoHeader,
              range |-> { "rest", "whole" }]
    /\ dl \in { StartDl(Url("f1"), << Seg("out") >>, << Seg("t.txt") >>, << >>, resume) :
                  resume \in BOOLEAN }
    /\ fs \in { (<< Seg("out") >> :> DirNode),
                (<< Seg("out") >> :> DirNode)
                @@ (<< Seg("out"), Seg("t.txt") >> :> FileNode(<< >>, LocalBytes(1))) }
    /\ fs0 = fs
    /\ full = NoFull
    /\ stack = << >>
    /\ pc = "downloading"
    /\ faults = MaxFaults
    /\ exc = ""
    /\ ret = << 0, 0 >>
    /\ hist = << >>
    /\ argv = NoArgv
    /\ verbose = FALSE
    /\ tx = NoTx

\* Project.sync(url, 'out', update=False, nofiles) is called; no request
\* and no disk operation fails and the file server honours Range
InitSyncOnce ==
    /\ remote \in RemoteTrees
    /\ (~HasDir(remote[P_root]) => remote[P_d] = NoEmbedded)
    /\ output = Seg("out")
    /\ update = FALSE
    /\ nofiles \in BOOLEAN
    /\ iterative = TRUE
    /\ op = "sync"
    /\ content = RemoteBytes(2)
    /\ config = DefaultConfig
    /\ env = [ra |-> { << 10 >> }, bad |-> { "exc" }, cd |-> NoHeader,
              range |-> { "rest" }]
    /\ fs \in InitialFs
    /\ fs0 = fs
    /\ full = NoFull
    /\ stack = << >>
    /\ dl = NoDl
    /\ pc = "start"
    /\ faults = 0
    /\ exc = ""
    /\ ret = << 0, 0 >>
    /\ hist = << >>
    /\ argv = NoArgv
    /\ verbose = FALSE
    /\ tx = NoTx

\* The caller calls get_file again, with resume, after the call that raised
\* IOError; fs0 is the local tree this call finds
DlAgain ==
    /\ op = "get_file" /\ pc = "raised" /\ exc = "IOError"
    /\ op' = "get_file again"
    /\ dl' = StartDl(dl.url, dl.filepath, dl.filename, dl.filesize, TRUE)
    /\ pc' = "downloading"
    /\ exc' = ""
    /\ fs0' = fs
    /\ hist' = << >>
    /\ UNCHANGED << remote, output, update, nofiles, iterative, content, config, env,
                    full, fs, stack, faults, ret, argv, verbose, tx >>

\* The caller runs the same sync once more when the first is over; fs0 is
\* the local tree the second run finds
Rerun ==
    /\ op = "sync" /\ pc \in {"done", "raised"}
    /\ op' = "sync again"
    /\ pc' = "start"
    /\ exc' = ""
    /\ ret' = << 0, 0 >>
    /\ fs0' = fs
    /\ hist' = << >>
    /\ UNCHANGED << remote, output, update, nofiles, iterative, content, config, env,
                    full, fs, stack, dl, faults, argv, verbose, tx >>

InitAgain == InitDLOnce \/ InitSyncOnce

NextAgain == Next \/ DlAgain \/ Rerun

\* An operation and the same operation after it
SpecAgain == InitAgain /\ [][NextAgain]_vars


\* ---------------------------------------------------------- command line
\* Longest tail of a URL on the command line, in tokens
MaxTail == 2

\* a run of characters of [A-Za-z0-9_-]
IdRun == "test123"

\* a slash and one more path segment
MoreSegment == "/x"

\* "x", the segment of MoreSegment
MoreName == "x"

\* The URLs given on the command line, as tokens: the scheme with "://",
\* the host, the kind of link with its slashes, and a tail of runs of
\* identifier characters and further segments; and a word that is no URL
CliUrls ==
    { << "not-a-url" >> }
    \cup
    { << s, h, k >> \o t :
        s \in { "https://", "http://" },
        h \in { "disk.yandex.ru", "disk.yandex.com", "example.com" },
        k \in { "/d/", "/i/", "/" },
        t \in SeqsUpTo({ IdRun, MoreSegment }, MaxTail) }

\* processor.py:33-38: each pattern is a literal start followed by
\* [A-Za-z0-9_-]+
patterns ==
    { << "https://", h, k >> :
        h \in { "disk.yandex.ru", "disk.yandex.com" }, k \in { "/d/", "/i/" } }

\* re.match(pattern, url): the pattern is matched from the start of url;
\* one identifier character after the literal start completes the match and
\* what follows the match is not looked at
ReMatch(pattern, u) ==
    /\ Len(u) > Len(pattern)
    /\ SubSeq(u, 1, Len(pattern)) = pattern
    /\ u[Len(pattern) + 1] = IdRun

\* processor.py:24-39
validate_yandex_url(u) == \E pattern \in patterns : ReMatch(pattern, u)

\* The places of the slashes in the tail of u
TailSlashes(u) == { i \in 4..Len(u) : u[i] = MoreSegment }

\* processor.py:360: id = url.rsplit("/", 1)[-1], of a URL that passed the
\* validation, as a path component
LastSegment(u) ==
    IF TailSlashes(u) = {} THEN SubSeq(u, 4, Len(u))
    ELSE LET i == CHOOSE i \in TailSlashes(u) : \A j \in TailSlashes(u) : j <= i
         IN  << MoreName >> \o SubSeq(u, i + 1, Len(u))

\* core.py:118: url.rsplit("/d/", 1)[-1] if "/d/" in url else
\* url.rsplit("/i/", 1)[-1], of a URL that passed the validation and has no
\* further segment, as a path component
AfterKind(u) == SubSeq(u, 4, Len(u))

\* Project.full or Project.sync is called
InvokeEv(fn) == Ev("invoke", fn, NoUrl, NoPath, NoPath, 0, << >>)

\* core.py:60-70, 109-121: the command validates the URL, leaves with
\* typer.Exit(1) when it is not valid, and calls Project.full or
\* Project.sync otherwise; sync is given the identifier as output when no
\* --output was given, and yd_get_full (360-362) takes it alike
Cli ==
    /\ pc = "cli"
    /\ IF ~validate_yandex_url(argv.url)
       THEN /\ pc' = "exit" /\ exc' = "Exit(1)"
            /\ UNCHANGED << op, output, hist >>
       ELSE /\ op' = (IF op = "full command" THEN "full" ELSE "sync")
            /\ output' = (IF argv.output # << >> THEN argv.output[1]
                          ELSE IF op = "full command" THEN LastSegment(argv.url)
                          ELSE AfterKind(argv.url))
            /\ hist' = Append(hist, InvokeEv(op'))
            /\ pc' = (IF op = "full command" THEN "full_start" ELSE "start")
            /\ UNCHANGED exc
    /\ UNCHANGED << remote, update, nofiles, iterative, content, config, fs0, env,
                    argv, verbose, tx, full, fs, stack, dl, faults, ret >>

\* core.py:71-75, 122-126: an exception of the operation is reported and
\* the command leaves with typer.Exit(1)
CliFail ==
    /\ argv # NoArgv /\ pc = "raised"
    /\ pc' = "exit"
    /\ UNCHANGED << args, full, fs, stack, dl, faults, exc, ret, hist >>

\* The command lines: `full URL` and `sync URL` with their options; without
\* --output sync is given a URL with no further segment
InitCli ==
    /\ remote \in FewTrees
    /\ argv \in { [url |-> u, output |-> o] :
                    u \in CliUrls, o \in { << >>, << Seg("out") >> } }
    /\ op \in { "full command", "sync command" }
    /\ (op = "sync command" /\ argv.output = << >>) => TailSlashes(argv.url) = {}
    /\ IF op = "full command"
       THEN /\ full \in { [NoFull EXCEPT !.output = argv.output, !.metadata = m,
                                         !.resource = r, !.link = l] :
                            m \in BOOLEAN, r \in Resources, l \in Links }
            /\ update = FALSE /\ nofiles = FALSE
       ELSE /\ full = NoFull
            /\ update \in BOOLEAN /\ nofiles \in BOOLEAN
    /\ output = << >>
    /\ iterative = TRUE
    /\ content = RemoteBytes(2)
    /\ config = DefaultConfig
    /\ env = [ra |-> { << 10 >> }, bad |-> { "exc" }, cd |-> NoHeader,
              range |-> { "rest", "whole" }]
    /\ fs \in FullInitialFs
    /\ fs0 = fs
    /\ stack = << >>
    /\ dl = NoDl
    /\ pc = "cli"
    /\ faults = 0
    /\ exc = ""
    /\ ret = << 0, 0 >>
    /\ hist = << >>
    /\ verbose = FALSE
    /\ tx = NoTx

NextCli == Cli \/ CliFail \/ NextProject

\* The commands full and sync of core.py
SpecCli == InitCli /\ [][NextCli]_vars

\* ------------------------------------------------- one request, by attempt
\* Largest max_retries the session is configured with
MaxRetries == 3

\* processor.py:50: status_forcelist
status_forcelist == { "429", "500", "502", "503", "504" }

\* What the server may answer to one attempt: 200, 404, 429, 500, 503, or
\* nothing (the connection fails)
Answers == { "ok", "err", "429", "500", "503", "exc" }

\* urllib3 Retry.get_backoff_time: no pause before the first retry, then
\* backoff_factor * 2 ** (errors - 1)
Backoff(errors) ==
    IF errors <= 1 THEN 0 ELSE config.retry_backoff_factor * 2 ^ (errors - 1)

\* a Retry that still allows an attempt when its total is used up
MayRetryOnceMore(left) == left >= 0

\* urllib3 Retry.increment / is_exhausted, with total=config.max_retries
\* (processor.py:47-52): an attempt may be repeated while the total is not
\* used up
MayRetry(left) == left > 0

\* One attempt of session.get (processor.py:112-123, 127-140 and alike in
\* 467-475, 576-585, 333-336, 402-405) through the adapter mounted in
\* 53-55: an answer of the force list, or none, is retried after a pause
\* (the Retry-After of the answer, else the backoff) while the Retry allows;
\* when it does not, the adapter raises (RetryError for a status,
\* ConnectionError for none) and the except clause of the caller re-raises
\* (144-147); any other answer is handed to the caller
GetAttempt ==
    /\ pc = "get_send"
    /\ \E a \in Answers, ra \in env.ra :
         LET reply == ReplyEv(a, IF a = "429" THEN ra ELSE << >>)
             sent == hist \o << GetEv(Url("f1"), << >>), reply >>
         IN  IF a \in status_forcelist \/ a = "exc"
             THEN IF MayRetry(tx.left)
                  THEN /\ tx' = [tx EXCEPT !.left = @ - 1, !.errors = @ + 1]
                       /\ hist' = sent \o
                                  << SleepEv(IF reply.o # << >> THEN reply.o[1]
                                             ELSE Backoff(tx.errors + 1)) >>
                       /\ UNCHANGED << pc, exc >>
                  ELSE /\ exc' = (IF a = "exc" THEN "ConnectionError" ELSE "RetryError")
                       /\ hist' = sent \o Raising("get_file", NoPath, exc')
                       /\ pc' = "raised"
                       /\ UNCHANGED tx
             ELSE /\ hist' = sent
                  /\ pc' = "get_answer"
                  /\ UNCHANGED << tx, exc >>
    /\ UNCHANGED << remote, output, update, nofiles, iterative, op, content, config,
                    fs0, env, argv, verbose, full, fs, stack, dl, faults, ret >>

\* processor.py:125-143: the caller looks at the answer: after a 429 it
\* waits as handle_rate_limit says and calls session.get once more, with a
\* Retry of its own; then raise_for_status
GetAnswer ==
    /\ pc = "get_answer"
    /\ LET reply == hist[Len(hist)]
       IN  IF reply.s = "429" /\ tx.call = 1
           THEN /\ hist' = hist \o handle_rate_limit(reply.o)
                /\ tx' = [call |-> 2, left |-> config.max_retries, errors |-> 0]
                /\ pc' = "get_send"
                /\ UNCHANGED exc
           ELSE IF reply.s = "ok"
           THEN /\ pc' = "done"
                /\ UNCHANGED << hist, tx, exc >>
           ELSE /\ hist' = hist \o Raising("get_file", NoPath, "HTTPError")
                /\ pc' = "raised" /\ exc' = "HTTPError"
                /\ UNCHANGED tx
    /\ UNCHANGED << remote, output, update, nofiles, iterative, op, content, config,
                    fs0, env, argv, verbose, full, fs, stack, dl, faults, ret >>

\* One GET of a session made by create_session_with_retries, for every
\* max_retries up to MaxRetries
InitGet ==
    /\ remote \in { (P_root :> NoEmbedded) @@ (P_d :> NoEmbedded) }
    /\ output = Seg("out")
    /\ update = FALSE
    /\ nofiles = FALSE
    /\ iterative = FALSE
    /\ op = "GET"
    /\ content = RemoteBytes(1)
    /\ config \in { [DefaultConfig EXCEPT !.max_retries = n] : n \in 0..MaxRetries }
    /\ env = [ra |-> RetryAfters, bad |-> { "exc", "err" }, cd |-> NoHeader,
              range |-> { "rest" }]
    /\ fs = << >>
    /\ fs0 = fs
    /\ full = NoFull
    /\ stack = << >>
    /\ dl = NoDl
    /\ pc = "get_send"
    /\ faults = 0
    /\ exc = ""
    /\ ret = << 0, 0 >>
    /\ hist = << >>
    /\ argv = NoArgv
    /\ verbose \in BOOLEAN
    /\ tx = [call |-> 1, left |-> config.max_retries, errors |-> 0]

NextGet == GetAttempt \/ GetAnswer

\* One GET, attempt by attempt
SpecGet == InitGet /\ [][NextGet]_vars

\* The same; the process is never stopped while it can take a step
SpecGetLive == SpecGet /\ WF_vars(NextGet)

\* ------------------------------------------------------------------ claims
\* The walker's loop is at a row
AtWalkRow ==
    Running /\ Top.fn = "walk" /\ Top.pos = "loop" /\ Top.i <= Len(Top.listing.items)

WalkRow == Top.listing.items[Top.i]

\* The row is a file row the walker can map to a local path
IsFileRow(row) ==
    HasPath(row) /\ "type" \in row.keys /\ row.type = "file"
    /\ ~FilePathRaises(output, row.path)

\* C1: in a walk with update set, a file row whose mapped local path exists
\* when the row is reached starts no download and leaves the local tree as
\* it is; the existence of the path decides alone, whatever the size and the
\* content of what is there.
C1_UpdateSkipsExisting ==
    [][ (/\ AtWalkRow /\ update /\ IsFileRow(WalkRow)
         /\ Exists(fs, FullFilePath(output, WalkRow.path)))
        => (/\ dl' = dl /\ fs' = fs /\ hist' = hist
            /\ stack' = Continue(stack)) ]_vars

\* A walk with update set is over: a/f1.txt, listed with size 100, is still
\* the one byte an earlier run left, it was never asked for, and another
\* file of the tree was
C1_Witness ==
    /\ pc = "done" /\ update /\ ~nofiles /\ iterative
    /\ \E i \in DOMAIN remote[P_root].items : remote[P_root].items[i] = F1
    /\ Exists(fs, FullFilePath(output, P_a_f1))
    /\ fs[FullFilePath(output, P_a_f1)] = FileNode(<< >>, LocalBytes(1))
    /\ \A k \in DOMAIN hist : hist[k].ev = "get_file" => hist[k].u # Url("f1")
    /\ \E k \in DOMAIN hist : hist[k].ev = "get_file"

\* The chunks of a body, one after the other
RECURSIVE Flatten(_)
Flatten(chunks) ==
    IF chunks = << >> THEN << >> ELSE Head(chunks) \o Flatten(Tail(chunks))

\* get_file was called with resume and its destination was a regular file
\* when it was called
DlResumesFile == dl.resume /\ dl.dest # NoPath /\ IsFile(fs0, dl.dest)

\* The size of the destination when get_file was called
DlOldSize == GetSize(fs0, dl.dest)

\* The chunks written so far
DlWritten == Flatten(SubSeq(dl.body, 1, dl.k - 1))

C2_Requests ==
    \E c \in DOMAIN hist :
        /\ hist[c] = CloseEv
        /\ c > 1 /\ hist[c - 1] = ReplyEv("ok", << >>)
        /\ \A k \in 1..(c - 1) : hist[k].ev = "GET" => hist[k].o = << >>
        /\ \A k \in (c + 1)..Len(hist) :
               /\ hist[k].ev # "close"
               /\ hist[k].ev = "GET" => hist[k] = GetEv(dl.url, << DlOldSize >>)
        /\ hist[Len(hist)] = ReplyEv("ok", << >>)
        /\ hist[Len(hist) - 1] = GetEv(dl.url, << DlOldSize >>)

C2_State ==
    DlResumesFile =>
        /\ (dl.pos \in {"open", "write"} \/ pc = "done") =>
               /\ dl.range = << DlOldSize >> /\ dl.existing = DlOldSize
               /\ C2_Requests
        /\ (dl.pos = "write" \/ pc = "done") =>
               /\ dl.total = DlOldSize + Len(DlWritten)
               /\ fs[dl.dest] = FileNode(<< >>, fs0[dl.dest].data \o DlWritten)
        /\ pc = "done" =>
               /\ DlWritten = Flatten(dl.body)
               /\ GetSize(fs, dl.dest) = DlOldSize + Len(Flatten(dl.body))

C2_Grows ==
    (DlResumesFile /\ dl.pos = "write" /\ dl'.pos = "write") => dl'.total >= dl.total

\* C2: get_file with resume and a destination that is a file of S bytes
\* closes the first answer, asked for without Range, and writes the body of
\* a request that carries Range: bytes=S-; total starts at S and only grows;
\* when get_file returns the file is the S old bytes followed by the bytes
\* of the ranged answer.
C2_ResumeAppends == [] C2_State /\ [][C2_Grows]_vars

\* A file of two bytes was resumed: the server sent the third byte of three
C2_Witness ==
    /\ pc = "done" /\ DlResumesFile /\ DlOldSize = 2
    /\ dl.range = << 2 >> /\ dl.total = 3
    /\ fs[dl.dest].data = LocalBytes(2) \o << << "b", 3 >> >>

\* hist[k] is the answer to a listing request of the walker that was
\* received and parsed (resp.json() did not raise)
WalkListed(k) ==
    /\ k > 1 /\ hist[k] = ReplyEv("ok", << >>)
    /\ hist[k - 1].ev = "list" /\ hist[k - 1].s = "walk"
    /\ ~(k < Len(hist) /\ hist[k + 1] = RaiseEv("walk", hist[k - 1].p, "ValueError"))

\* The snapshot of the listing of path is written when hist[j] happens
SnapshotEv(path) ==
    MetaEv(MetadataFile(DirPath(output, path)), path, Body(path))

Ended == pc \in {"done", "raised"}

\* What the claim C3 says as it stands: every activation of the walker that
\* received and parsed its listing has written the snapshot by the time the
\* operation is over
C3_AlwaysWrites ==
    Ended => \A k \in DOMAIN hist :
                 WalkListed(k) => \E j \in (k + 1)..Len(hist) :
                                      hist[j] = SnapshotEv(hist[k - 1].p)

\* C3 (amended): an activation of the walker that received and parsed its
\* listing goes straight on to create the local directory and to write the
\* body to _metadata.json in it, whatever nofiles, update and iterative are
\* and whatever the listing holds; the one way the snapshot is not written
\* is that os.makedirs raises OSError or open raises IOError, which ends the
\* activation before any row is looked at.  The file holds the body after
\* the write.
C3_WritesUnlessDiskFails ==
    /\ \A k \in DOMAIN hist :
         WalkListed(k) =>
           LET path == hist[k - 1].p
               dir == DirPath(output, path)
           IN  /\ Ended => k < Len(hist)
               /\ k < Len(hist) =>
                      hist[k + 1] \in {MkdirEv(dir), RaiseEv("walk", path, "OSError")}
               /\ (k < Len(hist) /\ hist[k + 1] = MkdirEv(dir)) =>
                      /\ Ended => k + 1 < Len(hist)
                      /\ k + 1 < Len(hist) =>
                             hist[k + 2] \in {SnapshotEv(path),
                                              RaiseEv("walk", path, "IOError")}
    /\ (hist # << >> /\ hist[Len(hist)].ev = "meta") =>
           LET e == hist[Len(hist)]
           IN  /\ e = SnapshotEv(e.q)
               /\ IsFile(fs, e.p)
               /\ fs[e.p] = FileNode(<< Body(e.q) >>, << >>)

\* A call with nofiles set and iterative unset, of a listing without
\* _embedded, is over and the snapshot is there
C3_Witness ==
    /\ pc = "done" /\ nofiles /\ ~iterative /\ update
    /\ remote[P_root] = NoEmbedded
    /\ \E k \in DOMAIN hist : WalkListed(k) /\ hist[k + 2] = SnapshotEv(P_root)
    /\ fs[MetadataFile(DirPath(output, P_root))] = FileNode(<< Body(P_root) >>, << >>)

\* The walker's activation at depth d has its snapshot written and on disk
FrameStored(d) ==
    LET f == stack[d]
        file == MetadataFile(DirPath(output, f.path))
    IN  /\ \E k \in DOMAIN hist : hist[k] = MetaEv(file, f.path, f.text)
        /\ f.text = Body(f.path)
        /\ IsFile(fs, file) /\ fs[file].text = << f.text >>

\* Every activation of the walker that is in its loop has its snapshot
\* written
C4_State ==
    \A d \in DOMAIN stack :
        (stack[d].fn = "walk" /\ (stack[d].pos = "loop" \/ d < Len(stack)))
        => FrameStored(d)

\* The events a step adds
Added == SubSeq(hist', Len(hist) + 1, Len(hist'))

\* A step that calls get_file for a row, or sends the listing request of a
\* subdirectory, finds the snapshot of the row's directory written
C4_Step ==
    /\ (\E j \in DOMAIN Added : Added[j].ev = "get_file")
       => (stack # << >> /\ Top.pos = "loop" /\ FrameStored(Len(stack)))
    /\ (\E j \in DOMAIN Added : Added[j].ev = "list" /\ Added[j].s = "walk"
                                 /\ Len(stack) > 1)
       => (stack[Len(stack) - 1].pos = "loop" /\ FrameStored(Len(stack) - 1))

\* C4: the walker writes the snapshot of a directory before it looks at any
\* row of it: before get_file is called for one of its files and before the
\* listing of one of its subdirectories is asked for.  Wherever the walk
\* stops later, the snapshot of every directory it is in is on disk.
C4_SnapshotBeforeRows == [] C4_State /\ [][C4_Step]_vars

\* The listing of the subdirectory d is being asked for while the download
\* of a file of the root is behind: both found the root's snapshot written
C4_Witness ==
    /\ Len(stack) = 2 /\ stack[2].fn = "walk" /\ stack[2].pos = "mkdir"
    /\ FrameStored(1)
    /\ \E k \in DOMAIN hist : hist[k].ev = "get_file"
    /\ hist[1] = ListEv("walk", P_root)
    /\ hist[4] = SnapshotEv(P_root)
    /\ \A k \in 1..4 : hist[k].ev \notin {"get_file"}

\* The snapshot file of the directory path
SnapshotFile(path) == MetadataFile(DirPath(output, path))

\* C5: a recursive walk is over and nothing failed during it: for every
\* directory whose listing was received, _metadata.json in its local
\* directory holds the body received and nothing else.
C5_SnapshotsKeepBody ==
    (pc = "done" /\ op = "walk" /\ iterative /\ faults = MaxFaults) =>
        \A k \in DOMAIN hist :
            WalkListed(k) =>
                /\ IsFile(fs, SnapshotFile(hist[k - 1].p))
                /\ fs[SnapshotFile(hist[k - 1].p)]
                       = FileNode(<< Body(hist[k - 1].p) >>, << >>)

\* hist[k] is a listing the walker received whose directory could not be
\* created or whose snapshot file could not be opened
DiskFailed(k) ==
    LET path == hist[k - 1].p
    IN  /\ k < Len(hist)
        /\ \/ hist[k + 1] = RaiseEv("walk", path, "OSError")
           \/ /\ k + 1 < Len(hist)
              /\ hist[k + 1] = MkdirEv(DirPath(output, path))
              /\ hist[k + 2] = RaiseEv("walk", path, "IOError")

\* The listing received at hist[k] was written to its snapshot file
Persisted(k) ==
    /\ k + 1 < Len(hist)
    /\ hist[k + 2] = SnapshotEv(hist[k - 1].p)

\* Project.__store got past the creation of the output root
Stored == pc # "start" /\ ~(hist # << >> /\ hist[1].s = "OSError" /\ hist[1].q = << << "store" >> >>)

\* With nofiles get_file is never called and the scan is left out: the walk
\* starts at the root
C6_NoDownloads ==
    nofiles =>
        /\ dl.pos = "idle"
        /\ \A k \in DOMAIN hist : hist[k].ev # "get_file"
        /\ \A k \in DOMAIN hist : hist[k].ev = "list" => hist[k].s = "walk"
        /\ (Stored /\ stack # << >>) => (stack[1].fn = "walk" /\ stack[1].path = P_root)
        /\ (Stored /\ Ended) => hist[1] = ListEv("walk", P_root)

\* What the claim C6 says as it stands: no download, the walk from the
\* root, and every directory whose listing the walk received has it
\* persisted when the sync is over
C6_AlwaysPersists ==
    /\ C6_NoDownloads
    /\ (nofiles /\ Ended) => \A k \in DOMAIN hist : WalkListed(k) => Persisted(k)

\* C6 (amended): with nofiles a sync never calls get_file, at any depth; the
\* scan is left out and the walk runs from the root; every directory whose
\* listing the walk received has it persisted when the sync is over, unless
\* its local directory could not be created or its snapshot file could not
\* be opened.
C6_MetadataOnly ==
    /\ C6_NoDownloads
    /\ (nofiles /\ Ended) =>
           \A k \in DOMAIN hist : WalkListed(k) => (Persisted(k) \/ DiskFailed(k))

\* A sync with nofiles of a root that holds a file and the directory d, d
\* holding a file too, is over: both snapshots are there and no file is
C6_Witness ==
    /\ pc = "done" /\ nofiles /\ op = "sync"
    /\ remote[P_root].items = << F1, D1 >>
    /\ remote[P_d].items = << F3 >>
    /\ \E k \in DOMAIN hist : WalkListed(k) /\ hist[k - 1].p = P_d /\ Persisted(k)
    /\ fs[SnapshotFile(P_root)] = FileNode(<< Body(P_root) >>, << >>)
    /\ fs[SnapshotFile(P_d)] = FileNode(<< Body(P_d) >>, << >>)
    /\ ~Exists(fs, FullFilePath(output, P_d_f3))
    /\ \A k \in DOMAIN hist : hist[k].ev # "get_file"

\* The size an entry declares: 0 when the key is absent or the value null
Declared(row) == IF "size" \in row.keys /\ row.size # << >> THEN row.size[1] ELSE 0

IsDirRow(row) == "path" \in row.keys /\ "type" \in row.keys /\ row.type = "dir"

\* The rows of the listing of path
Rows(path) == remote[path].items

\* No row of the tree under path, depth levels deep, is skipped by the scan
RECURSIVE NoSkip(_, _)
NoSkip(path, depth) ==
    /\ ~nofiles
    /\ \A i \in DOMAIN Rows(path) :
         LET row == Rows(path)[i]
         IN  /\ "path" \in row.keys /\ "type" \in row.keys
             /\ row.type = "file" =>
                    /\ ~FilePathRaises(output, row.path)
                    /\ ~(update /\ Exists(fs, FullFilePath(output, row.path)))
             /\ (row.type = "dir" /\ depth > 0) => NoSkip(row.path, depth - 1)

\* The sum of g over the indices in S
RECURSIVE Sum(_, _)
Sum(g, S) ==
    IF S = {} THEN 0
    ELSE LET i == CHOOSE i \in S : TRUE IN g[i] + Sum(g, S \ {i})

\* << N plus the counts of the subdirectories, T plus their bytes >> for the
\* directory path: N the number of its file entries, T their declared sizes
RECURSIVE Expected(_, _)
Expected(path, depth) ==
    LET rows == Rows(path)
        sub == [i \in DOMAIN rows |->
                   IF IsDirRow(rows[i]) /\ depth > 0
                   THEN Expected(rows[i].path, depth - 1)
                   ELSE << 0, 0 >>]
        n == [i \in DOMAIN rows |-> IF rows[i].type = "file" THEN 1 ELSE 0]
        t == [i \in DOMAIN rows |-> IF rows[i].type = "file" THEN Declared(rows[i]) ELSE 0]
    IN  << Sum(n, DOMAIN rows) + Sum([i \in DOMAIN rows |-> sub[i][1]], DOMAIN rows),
           Sum(t, DOMAIN rows) + Sum([i \in DOMAIN rows |-> sub[i][2]], DOMAIN rows) >>

\* How deep the remote trees go below a directory
TreeDepth == 2

\* The scan's activation on top is about to return
ScanReturns ==
    /\ Running /\ Top.fn = "scan" /\ Top.pos = "loop"
    /\ Top.i > Len(Top.listing.items)

\* C7: when no entry is skipped and every listing request succeeds, the scan
\* of a directory returns file_count = N plus the counts its subdirectories
\* returned and total_size = T plus their sizes, whatever the order of the
\* entries; an entry whose size is absent or null adds 1 and 0.
C7_ScanTotals ==
    (ScanReturns /\ faults = MaxFaults /\ NoSkip(Top.path, TreeDepth))
    => << Top.count, Top.total >> = Expected(Top.path, TreeDepth)

\* The scan of the root returns 2 files and 100 bytes: d, listed first,
\* gave 1 and 0 for a file of size null
C7_Witness ==
    /\ ScanReturns /\ Len(stack) = 1 /\ faults = MaxFaults
    /\ Rows(P_root) = << D1, F1 >> /\ Rows(P_d) = << F3 >>
    /\ NoSkip(P_root, TreeDepth)
    /\ Top.count = 2 /\ Top.total = 100

\* The loop of the scanner or of the walker is at a row without a path key
AtPathlessRow ==
    /\ Running /\ Top.pos = "loop" /\ Top.i <= Len(Top.listing.items)
    /\ "path" \notin Top.listing.items[Top.i].keys

\* C8: an entry without a path key is passed over by the walker and by the
\* scanner and nothing is raised: no download starts, no activation is
\* entered for it, nothing is created on disk, the scanner's counts stay,
\* and the loop goes on with the next entry of the same listing.
C8_PathlessSkipped ==
    [][ AtPathlessRow =>
          /\ stack' = Continue(stack)
          /\ fs' = fs /\ dl' = dl /\ hist' = hist
          /\ pc' = pc /\ exc' = exc /\ ret' = ret ]_vars

\* d lists an entry without path and then a file: the scan counted the file
\* alone and the walk asked for it, and nothing was raised
C8_Witness ==
    /\ pc = "done" /\ op = "sync" /\ ~nofiles /\ faults = MaxFaults
    /\ Rows(P_root) = << NP, D1 >> /\ Rows(P_d) = << NP, F3 >>
    /\ ret = << 1, 0 >>
    /\ \E k \in DOMAIN hist : hist[k].ev = "get_file" /\ hist[k].u = Url("f3")
    /\ \A k \in DOMAIN hist : hist[k].ev # "raise"
    /\ Exists(fs, FullFilePath(output, P_d_f3))

IsRequest(e) == e.ev \in {"GET", "list"}

\* hist[k] is a 429 answer, with a Retry-After header, to a request sent for
\* the first time
FirstRateLimited(k) ==
    /\ hist[k].ev = "reply" /\ hist[k].s = "429" /\ hist[k].o # << >>
    /\ k > 1 /\ IsRequest(hist[k - 1])
    /\ ~(k > 2 /\ hist[k - 2].ev = "sleep")

F1Synced ==
    /\ op = "sync" /\ pc = "done" /\ ~nofiles /\ ~update
    /\ output = Seg("out")
    /\ remote[P_root] = Listing(TRUE, << F1 >>)

\* The sync wrote the body as received to out/_metadata.json, created out,
\* and called get_file once, for http://x/f1 with size 100 and the
\* destination dest
F1SyncedTo(dest) ==
    /\ fs[<< Seg("out"), Seg("_metadata.json") >>] = FileNode(<< Body(P_root) >>, << >>)
    /\ IsDir(fs, << Seg("out") >>)
    /\ Cardinality({k \in DOMAIN hist : hist[k].ev = "get_file"}) = 1
    /\ \E k \in DOMAIN hist :
         /\ hist[k].ev = "get_file"
         /\ hist[k].u = Url("f1") /\ hist[k].o = << 100 >>
         /\ hist[k].p \o hist[k].q = dest

\* What the claim C10 says as it stands: the destination is out/f1.txt
C10_DestinationInRoot ==
    F1Synced => F1SyncedTo(<< Seg("out"), Seg("f1.txt") >>)

\* C10 (amended): the sync of that listing writes the body as received to
\* out/_metadata.json, creates out, and calls get_file once, for
\* http://x/f1 with expected size 100 and the destination out/a/f1.txt.
C10_DestinationKeepsPath ==
    F1Synced => F1SyncedTo(<< Seg("out"), Seg("a"), Seg("f1.txt") >>)

\* The sync is over without a failure and the file is at out/a/f1.txt,
\* nothing at out/f1.txt
C10_Witness ==
    /\ F1Synced /\ faults = MaxFaults /\ fs0 = << >>
    /\ F1SyncedTo(<< Seg("out"), Seg("a"), Seg("f1.txt") >>)
    /\ fs[<< Seg("out"), Seg("a"), Seg("f1.txt") >>] = FileNode(<< >>, content)
    /\ ~Exists(fs, << Seg("out"), Seg("f1.txt") >>)
    /\ ret = << 1, 100 >>

\* yd_get_full runs against a resource whose link answer has no href key
NoHref == op = "full" /\ "href" \notin full.link.keys

\* The link answer was received and parsed
LinkAnswered ==
    \E k \in DOMAIN hist :
        /\ hist[k] = LinkEv /\ k < Len(hist) /\ hist[k + 1] = ReplyEv("ok", << >>)
        /\ ~(k + 1 < Len(hist) /\ hist[k + 2].ev = "raise"
                               /\ hist[k + 2].s \in { "JSONDecodeError", "ValueError" })

\* The regular files of a local tree
Files(f) == { p \in DOMAIN f : f[p].kind = "file" }

\* yd_get_full never returns, raises the ValueError of the missing link once
\* the link answer is there, and never calls get_file
C11_Fails ==
    /\ pc # "done" /\ dl.pos = "idle"
    /\ \A k \in DOMAIN hist : hist[k].ev # "get_file"
    /\ (Ended /\ LinkAnswered) => (pc = "raised" /\ exc = NoDownloadUrl)

\* What the claim C11 says as it stands: no file is created, whatever
\* metadata and output are
C11_NoFileAtAll ==
    NoHref => (C11_Fails /\ Files(fs) = Files(fs0))

\* C11 (amended): yd_get_full against a resource whose link answer has no
\* href key raises the ValueError "No download URL found" and never calls
\* get_file, whatever metadata and output are; no file is downloaded and no
\* file that was there is changed; the one file it may create is
\* _metadata.json in the output directory, when metadata is set and an
\* output directory is given.
C11_NoDownloadWithoutHref ==
    NoHref =>
        /\ C11_Fails
        /\ \A p \in Files(fs0) : fs[p] = fs0[p]
        /\ \A p \in Files(fs) \ Files(fs0) :
               /\ full.metadata /\ Given(full.output)
               /\ p = MetadataFile(<< full.output[1] >>)
               /\ fs[p] = FileNode(<< ResourceText >>, << >>)

\* The call with metadata set and the output out, for a directory, has
\* raised for the missing link after the scan: the snapshot is there, the
\* archive is not
C11_Witness ==
    /\ NoHref /\ pc = "raised" /\ exc = NoDownloadUrl
    /\ full.metadata /\ full.output = << Seg("out") >> /\ fs0 = << >>
    /\ full.data /\ full.resource.type = "dir"
    /\ \E k \in DOMAIN hist : hist[k] = ListEv("scan", P_root)
    /\ Files(fs) = { << Seg("out"), Seg("_metadata.json") >> }

\* The segment holds a character that is not a blank
NonBlank(seg) == \E k \in DOMAIN seg : seg[k] # SP

\* The segment up to its last character that is not a blank
Trimmed(seg) ==
    SubSeq(seg, 1, CHOOSE k \in DOMAIN seg : seg[k] # SP /\ \A j \in (k + 1)..Len(seg) : seg[j] = SP)

\* The segments of a remote path that are neither empty nor blank, in
\* their order, each without its trailing blanks
Kept(path) ==
    LET idx == { i \in DOMAIN path : NonBlank(path[i]) }
        nth(j) == CHOOSE i \in idx : Cardinality({ h \in idx : h <= i }) = j
    IN  [j \in 1..Cardinality(idx) |-> Trimmed(path[nth(j)])]

\* The local path of a remote path under the output root
Local(path) == << output >> \o Kept(path)

\* The file rows of the root listing
RootFiles ==
    { i \in DOMAIN Rows(P_root) : Rows(P_root)[i].type = "file" }

\* C12: the local path is a function of the output root and the remote path
\* alone: the output root followed by the segments of the path that are
\* neither empty nor whitespace, each right-trimmed.  The walker's directory
\* mapping, the walker's file mapping and the scanner's file mapping give
\* these same components ("a//b/ /c" gives a, b, c).
C12_MappingAgrees ==
    /\ \A d \in DOMAIN stack :
         (stack[d].fn = "walk" /\ stack[d].pos \in {"meta", "loop"}) =>
             /\ IsDir(fs, Local(stack[d].path))
             /\ \E k \in DOMAIN hist : hist[k] = MkdirEv(Local(stack[d].path))
    /\ \A k \in DOMAIN hist : \A i \in RootFiles :
         (hist[k].ev = "get_file" /\ hist[k].u = Rows(P_root)[i].file) =>
             hist[k].p \o hist[k].q = Local(Rows(P_root)[i].path)
    /\ (ScanReturns /\ Len(stack) = 1) =>
           Top.count = Cardinality({ i \in RootFiles :
                           ~(update /\ Exists(fs, Local(Rows(P_root)[i].path))) })
    /\ Components(P_example) = << Seg("a"), Seg("b"), Seg("c") >>

\* The sync of a listing with the one file "a//b/ /c" is over: the scan
\* counted it, and it was downloaded to out/a/b/c
C12_Witness ==
    /\ pc = "done" /\ Rows(P_root) = << MapFile(P_example) >>
    /\ ret = << 1, 1 >>
    /\ \E k \in DOMAIN hist :
         /\ hist[k].ev = "get_file"
         /\ hist[k].p = << Seg("out"), Seg("a"), Seg("b") >>
         /\ hist[k].q = << Seg("c") >>
    /\ IsFile(fs, << Seg("out"), Seg("a"), Seg("b"), Seg("c") >>)

\* hist[j] and hist[k] are the get_file calls for the two file rows of the
\* root listing
BothCalled(j, k) ==
    /\ Len(Rows(P_root)) = 2 /\ RootFiles = {1, 2}
    /\ hist[j].ev = "get_file" /\ hist[j].u = Rows(P_root)[1].file
    /\ hist[k].ev = "get_file" /\ hist[k].u = Rows(P_root)[2].file

\* What the claim C13 says as it stands: two files of distinct remote paths
\* are never given the same local path
C13_Injective ==
    \A j, k \in DOMAIN hist :
        (BothCalled(j, k) /\ Rows(P_root)[1].path # Rows(P_root)[2].path)
        => hist[j].p \o hist[j].q # hist[k].p \o hist[k].q

\* C13 (amended): two remote paths are given the same local path under the
\* same output root only when they have the same segments once the empty
\* and the whitespace-only segments are dropped and the trailing whitespace
\* of each segment is cut; paths that differ in anything else never share a
\* local path.
C13_InjectiveOnKept ==
    \A j, k \in DOMAIN hist :
        BothCalled(j, k) =>
            (hist[j].p \o hist[j].q = hist[k].p \o hist[k].q
             <=> Kept(Rows(P_root)[1].path) = Kept(Rows(P_root)[2].path))

\* The files at "a /" and at "a" of one listing were both downloaded to
\* out/a
C13_Witness ==
    /\ pc = "done"
    /\ Rows(P_root)[1].path = << << "a", SP >>, << >> >>
    /\ \E j, k \in DOMAIN hist :
         /\ BothCalled(j, k)
         /\ Rows(P_root)[2].path = << Seg("a") >>
         /\ hist[j].p \o hist[j].q = << Seg("out"), Seg("a") >>
         /\ hist[k].p \o hist[k].q = << Seg("out"), Seg("a") >>

\* No listing of the remote tree holds the same row twice
DistinctRows ==
    \A p \in DOMAIN remote :
        \A i, j \in DOMAIN Rows(p) : Rows(p)[i] = Rows(p)[j] => i = j

\* hist[k] is a step that writes a local file: the snapshot of a listing or
\* a download
IsWrite(k) == hist[k].ev \in {"meta", "get_file"}

\* The local path the step hist[k] writes
Target(k) == IF hist[k].ev = "meta" THEN hist[k].p ELSE hist[k].p \o hist[k].q

\* C14: within one recursive walk every local path is written by at most
\* one step: no file is written both as a snapshot and as a download, and
\* no two entries or directories write the same local path.
C14_SingleWriter ==
    (op = "walk" /\ DistinctRows) =>
        \A j, k \in DOMAIN hist :
            (j < k /\ IsWrite(j) /\ IsWrite(k)) => Target(j) # Target(k)

\* hist[k] is a call of get_file for the url
CallOf(url, k) == hist[k].ev = "get_file" /\ hist[k].u = url

\* The rows of the root listing the walker calls get_file for when nothing
\* is skipped: files with a path, a type and a link
RootLinks(url) ==
    { i \in DOMAIN Rows(P_root) :
        LET row == Rows(P_root)[i]
        IN  /\ {"path", "type", "file"} \subseteq row.keys
            /\ row.type = "file" /\ row.file = url }

\* The walk of the root got to every row of the root listing: it entered
\* every subdirectory, and it called get_file for every file that was to be
\* downloaded (with update, for every file that is not there)
RootRowsHandled ==
    \A i \in DOMAIN Rows(P_root) :
        LET row == Rows(P_root)[i]
        IN  ("path" \in row.keys /\ "type" \in row.keys) =>
              /\ row.type = "dir" =>
                     \E k \in DOMAIN hist : hist[k] = ListEv("walk", row.path)
              /\ (row.type = "file" /\ ~nofiles /\ "file" \in row.keys) =>
                     /\ ~update =>
                            Cardinality({ k \in DOMAIN hist : CallOf(row.file, k) })
                                = Cardinality(RootLinks(row.file))
                     /\ update =>
                            \/ \E k \in DOMAIN hist : CallOf(row.file, k)
                            \/ Exists(fs, FullFilePath(output, row.path))

\* C15: in a recursive walk a failure in a subdirectory (its listing
\* request, its parse, its directory, anything below it) or in a download is
\* caught at the parent: the walk raises only what the root activation
\* itself raised, and a walk that returned has got to every row of the root
\* listing, those after the failure included.
C15_FailuresCaughtAtParent ==
    (op = "walk" /\ iterative) =>
        /\ pc = "raised" =>
               /\ hist # << >>
               /\ hist[Len(hist)].ev = "raise"
               /\ hist[Len(hist)].q = << << "walk" >> >>
               /\ hist[Len(hist)].p = P_root
        /\ pc = "done" => RootRowsHandled

\* The walk of a root listing of d and a/f1.txt returned: the walk of d had
\* raised, and get_file was called for f1.txt after that
C15_Witness ==
    /\ op = "walk" /\ iterative /\ pc = "done"
    /\ Rows(P_root) = << D1, F1 >>
    /\ \E j, k \in DOMAIN hist :
         /\ j < k
         /\ hist[j].ev = "raise" /\ hist[j].p = P_d
         /\ CallOf(F1.file, k)

\* hist[k] is an exception raised by the scanner on the listing of a
\* directory
ScanFailed(k) == hist[k].ev = "raise" /\ hist[k].q = << << "scan" >> >>

\* C16: whenever the scanner fails on any listing during a sync, the
\* listing of the root or of a directory below it, the walker is still
\* invoked from the root.
C16_WalkAfterFailedScan ==
    (op = "sync" /\ Ended /\ \E k \in DOMAIN hist : ScanFailed(k)) =>
        \E k \in DOMAIN hist : hist[k] = ListEv("walk", P_root)

\* The places of the history where the request req is sent for the first
\* time, not again after a 429 answer
Calls(req) ==
    { k \in DOMAIN hist : hist[k] = req /\ ~(k > 1 /\ hist[k - 1].ev = "sleep") }

\* Project.__store is past the scan, or left it out
PastScan == Stored /\ pc # "scanning"

\* An exception left the scan of the root
RootScanRaised ==
    \E k \in DOMAIN hist : ScanFailed(k) /\ hist[k].p = P_root

\* The scan of the root returned (0, _)
ScanGaveZero == ~nofiles /\ PastScan /\ ~RootScanRaised /\ ret[1] = 0

\* Nothing but the output root was written, and the walker was not invoked
OnlyRootCreated ==
    /\ pc = "done"
    /\ fs = Makedirs(fs0, << output >>)
    /\ \A k \in DOMAIN hist : hist[k].ev \notin {"mkdir", "meta", "get_file", "GET"}
    /\ Calls(ListEv("walk", P_root)) = {}

\* The walker was invoked from the root, once: its activation is about to
\* send its request, or the request for the root listing was sent once
WalkedOnce ==
    \/ Cardinality(Calls(ListEv("walk", P_root))) = 1
    \/ /\ Calls(ListEv("walk", P_root)) = {}
       /\ pc = "walking" /\ stack = << Frame("walk", P_root) >>

\* What the claim C17 says as it stands: the first thing a sync does after
\* the output root is there is the scan of the root, whatever the flags; a
\* scan of zero files ends the sync with nothing but the output root written
\* and no walk; otherwise the walker is invoked once from the root
C17_ScanAlwaysFirst ==
    op = "sync" =>
        /\ (Stored /\ hist # << >>) => hist[1] = ListEv("scan", P_root)
        /\ ScanGaveZero => OnlyRootCreated
        /\ (~nofiles /\ PastScan /\ (RootScanRaised \/ ret[1] > 0)) => WalkedOnce

\* C17 (amended): unless metadataOnly is set, a sync runs the scanner first;
\* a scan that reports zero files, with or without updateOnly, ends the sync
\* with no walk and nothing written but the output root; a scan that reports
\* files, or that raises, is followed by one walk from the root.  With
\* metadataOnly the scanner is not run and the walker is invoked once from
\* the root at once.
C17_ScanFirstUnlessMetadataOnly ==
    op = "sync" =>
        /\ (Stored /\ hist # << >>) =>
               hist[1] = ListEv(IF nofiles THEN "walk" ELSE "scan", P_root)
        /\ nofiles => \A k \in DOMAIN hist : hist[k].ev = "list" => hist[k].s = "walk"
        /\ ScanGaveZero => OnlyRootCreated
        /\ (PastScan /\ (nofiles \/ RootScanRaised \/ ret[1] > 0)) => WalkedOnce
        /\ Cardinality(Calls(ListEv("scan", P_root))) <= 1

\* A sync with updateOnly of a listing whose one file a/f1.txt is there
\* already is over: the scan gave zero, no walk followed and the local tree
\* is as it was
C17_Witness ==
    /\ op = "sync" /\ pc = "done" /\ update /\ ~nofiles
    /\ Rows(P_root) = << F1 >>
    /\ ret[1] = 0
    /\ hist[1] = ListEv("scan", P_root)
    /\ Calls(ListEv("walk", P_root)) = {}
    /\ IsFile(fs0, << Seg("out"), Seg("a"), Seg("f1.txt") >>)
    /\ fs = fs0

\* A step taken while the scanner runs leaves the local tree and the
\* downloader as they are, and adds to the history nothing but listing
\* requests, their answers, the sleep after a 429 answer and the exception
\* that ends an activation
C18_Step ==
    pc = "scanning" =>
        /\ fs' = fs
        /\ dl' = dl /\ dl.pos = "idle"
        /\ \A j \in DOMAIN Added :
             \/ Added[j].ev = "list" /\ Added[j].s = "scan"
             \/ Added[j].ev \in {"reply", "sleep"}
             \/ Added[j].ev = "raise" /\ Added[j].q = << << "scan" >> >>

\* C18: the scanner has no side effect on the local file system, for any
\* tree, any flags and any failure: it creates no directory, writes no file
\* and calls no download; it sends listing requests and tests for existence
\* only.
C18_ScannerReadsOnly == [][C18_Step]_vars

\* The scan of a root with the subdirectory d is over and reported a file:
\* the local tree holds what it held before the sync, and the output root
C18_Witness ==
    /\ op = "sync" /\ pc = "walking" /\ stack = << Frame("walk", P_root) >>
    /\ ret[1] > 0
    /\ \E k \in DOMAIN hist : hist[k] = ListEv("scan", P_d)
    /\ fs = Makedirs(fs0, << output >>)
    /\ \A k \in DOMAIN hist : hist[k].ev \in {"list", "reply", "sleep", "raise"}

\* The resource's metadata say it is a directory, and their body did parse
DirResourceKnown ==
    /\ "type" \in full.resource.keys /\ full.resource.type = "dir"
    /\ \A k \in DOMAIN hist : hist[k] # CaughtEv("full", "JSONDecodeError")

InScope(k) ==
    /\ hist[k].ev \in {"raise", "caught"}
    /\ \/ op = "full"
       \/ /\ op = "sync"
          /\ \/ hist[k].q = << << "store" >> >>
             \/ hist[k].q = << << "walk" >> >> /\ hist[k].p = P_root

\* The failure hist[k] ended the operation: nothing happened after it and
\* its exception reached the caller
Aborted(k) == k = Len(hist) /\ pc = "raised" /\ exc = hist[k].s /\ dl.pos = "idle"

\* What the claim C20 says as it stands: every such failure ends the
\* operation, none is passed over and followed by further work
C20_EveryFailureAborts ==
    \A k \in DOMAIN hist : InScope(k) => Aborted(k)

\* hist[k] is a failure yd_get_full passes over: the metadata body that
\* does not parse, and whatever the scan for the statistics raises
PassedOver(k) ==
    /\ op = "full"
    /\ \/ hist[k] = CaughtEv("full", "JSONDecodeError")
       \/ hist[k].ev = "raise" /\ hist[k].q = << << "scan" >> >>

\* C20 (amended): every failure during a FullFetch but two ends it with the
\* error raised: a metadata body that does not parse and a failure of the
\* scan for the statistics are passed over, and are the only ones.  In a
\* sync a failure to create the output root and a failure of the walker's
\* root activation (its listing request, its parse, its directory, its
\* snapshot) end the operation with the error raised.
C20_FailuresAbortButTwo ==
    /\ \A k \in DOMAIN hist :
         InScope(k) => (IF PassedOver(k) THEN ~Aborted(k) ELSE Aborted(k))
    /\ \A k \in DOMAIN hist :
         (op = "full" /\ hist[k].ev = "caught") =>
             /\ hist[k] = CaughtEv("full", "JSONDecodeError")
             /\ k > 2 /\ hist[k - 2] = ResourceEv
    /\ (op = "full" /\ pc = "raised") =>
           /\ hist # << >>
           /\ hist[Len(hist)].ev = "raise"
           /\ hist[Len(hist)].q \in { << << "full" >> >>, << << "get_file" >> >> }

\* A FullFetch of a directory ended with the error of its link request: the
\* metadata had been fetched and the tree scanned, and nothing followed the
\* failure
C20_Witness ==
    /\ op = "full" /\ pc = "raised" /\ exc = "RequestException"
    /\ DirResourceKnown
    /\ \E k \in DOMAIN hist : hist[k] = ListEv("scan", P_root)
    /\ Len(hist) > 2 /\ hist[Len(hist) - 2] = LinkEv
    /\ hist[Len(hist)] = RaiseEv("full", NoPath, "RequestException")
    /\ \A k \in DOMAIN hist : hist[k].ev # "get_file"

\* The file rows of the root listing whose local path was a directory when
\* the sync began
DirAtDestination ==
    { i \in RootFiles : IsDir(fs0, FullFilePath(output, Rows(P_root)[i].path)) }

\* The walk of the root got into its loop, and every file row of the root
\* listing has a local path
RootLoopEntered ==
    /\ \E k \in DOMAIN hist : hist[k] = SnapshotEv(P_root)
    /\ \A i \in RootFiles : ~FilePathRaises(output, Rows(P_root)[i].path)

\* C21: when the destination path of a download exists as a directory, the
\* operation ends in an I/O error raised to the caller and is never passed
\* over in silence: here in a recursive walk that reaches such a file row,
\* with updateOnly set or not.
C21_DirectoryIsFatal ==
    (op = "sync" /\ Ended /\ RootLoopEntered /\ DirAtDestination # {}) =>
        /\ pc = "raised"
        /\ exc \in {"IOError", "OSError"}

\* The ranged request of the download was answered 416: the range is not
\* satisfiable
RangeRefused == \E k \in DOMAIN hist : hist[k] = ReplyEv("416", << >>)

\* C22: when the ranged request of a resumed download is answered with a
\* non-satisfiable-range response, the download restarts from byte zero and
\* the destination ends up holding the complete content.
C22_RestartsFromZero ==
    (op = "get_file" /\ Ended /\ RangeRefused /\ faults = MaxFaults
     /\ dl.dest # NoPath /\ IsFile(fs0, dl.dest)) =>
        /\ pc = "done"
        /\ IsFile(fs, dl.dest)
        /\ fs[dl.dest].data = content

\* The piece that begins the next parameter of a header value
NextParam == "; size=3"

\* The value of the filename= parameter of a header value, its surrounding
\* quotes stripped: what stands between "filename=" and the next parameter
\* or the end; << >> when there is no such parameter or no value
FilenameToken(value) ==
    LET at == { i \in DOMAIN value : value[i] = "filename=" }
        from == (CHOOSE i \in at : \A j \in at : i <= j) + 1
        ends == { i \in from..Len(value) : value[i] = NextParam }
        to == IF ends = {} THEN Len(value)
              ELSE (CHOOSE i \in ends : \A j \in ends : i <= j) - 1
    IN  IF at = {} THEN << >> ELSE StripQuotes(SubSeq(value, from, to))

\* The name the priority rule gives a download without an explicit filename
ResolvedName(cd, url) ==
    IF cd = NoHeader THEN << url[Len(url)] >>
    ELSE IF FilenameToken(cd[1]) = << >> THEN << url[Len(url)] >>
    ELSE IF \E k \in DOMAIN FilenameToken(cd[1]) : FilenameToken(cd[1])[k] = BadByte
         THEN << url[Len(url)] >>
    ELSE FilenameToken(cd[1])

\* C26: the destination of a download is resolved in this order: an
\* explicit filename; else the filename= token of the Content-Disposition
\* header, its surrounding quotes stripped; else, and when the header has no
\* such token or its value is no UTF-8, the last segment of the URL.  The
\* name is joined under the destination directory when one is given.
C26_NameResolved ==
    (op = "get_file" /\ dl.dest # NoPath) =>
        dl.dest = dl.filepath \o (IF dl.filename # NoPath
                                  THEN dl.filename
                                  ELSE << ResolvedName(env.cd, dl.url) >>)

\* hist[k] is the exception of a GET of get_file that failed: the request
\* got no answer, or an answer of a status that is no success
GetFailed(k) ==
    /\ k > 1 /\ hist[k].ev = "raise" /\ hist[k].q = << << "get_file" >> >>
    /\ hist[k - 1].ev = "reply" /\ hist[k - 1].s # "ok"

\* C24: if a GET issued by get_file fails, by a network failure or by a
\* status that is no success after the retry, get_file raises that error to
\* its caller at once, and the local tree is as it was before the call: the
\* destination is not created, not truncated and not appended to.
C24_FailedGetLeavesFile ==
    \A k \in DOMAIN hist :
        (op = "get_file" /\ GetFailed(k)) =>
            /\ k = Len(hist)
            /\ pc = "raised" /\ dl.pos = "idle"
            /\ exc = hist[k].s /\ exc \in {"RequestException", "HTTPError"}
            /\ fs = fs0

\* The ranged request for a file of two bytes got an answer of an error
\* status: get_file raised HTTPError and the two bytes are as they were
C24_Witness ==
    /\ op = "get_file" /\ pc = "raised" /\ exc = "HTTPError"
    /\ Len(hist) > 2
    /\ hist[Len(hist) - 2] = GetEv(dl.url, << 2 >>)
    /\ hist[Len(hist) - 1] = ReplyEv("err", << >>)
    /\ IsFile(fs, dl.dest) /\ fs[dl.dest].data = LocalBytes(2)
    /\ fs = fs0

\* C23: a sync with updateOnly off, run a second time against the same
\* remote tree and a file server that honours Range, leaves the local tree
\* as the first run left it: every file has the content and the size it
\* had, every _metadata.json is the same, and nothing is added.
C23_SecondSyncChangesNothing ==
    (op = "sync again" /\ Ended) => fs = fs0

\* The second sync of a tree with the file a/f1.txt is over: it rewrote the
\* snapshot of the root and asked for f1.txt from its end on, and the local
\* tree, the whole file in it, is as the first run left it
C23_Witness ==
    /\ op = "sync again" /\ pc = "done" /\ ~nofiles
    /\ Rows(P_root) = << F1 >>
    /\ \E k \in DOMAIN hist : hist[k] = SnapshotEv(P_root)
    /\ \E k \in DOMAIN hist : hist[k] = GetEv(F1.file, << Len(content) >>)
    /\ IsFile(fs, FullFilePath(output, F1.path))
    /\ Len(fs[FullFilePath(output, F1.path)].data) = Len(content)
    /\ fs = fs0

\* get_file ended with the IOError of a write: the file had been opened
WriteFailed == pc = "raised" /\ exc = "IOError" /\ dl.mode # ""

\* The bytes of the destination when the call began that the open kept
KeptBytes ==
    IF dl.mode = "ab" /\ dl.dest \in DOMAIN fs0 THEN fs0[dl.dest].data ELSE << >>

\* C25: a write that fails while a download is streamed ends get_file with
\* an IOError raised to the caller, and the bytes written until then stay
\* in the destination, which is neither deleted nor truncated; a later call
\* with resume asks for the file from that size on and appends the answer.
C25_PartialStays ==
    /\ (op = "get_file" /\ WriteFailed) =>
           /\ hist[Len(hist)] = RaiseEv("get_file", dl.dest, "IOError")
           /\ dl.pos = "idle"
           /\ IsFile(fs, dl.dest)
           /\ fs[dl.dest].data = KeptBytes \o DlWritten
    /\ (op = "get_file again" /\ (dl.pos \in {"open", "write"} \/ pc = "done")) =>
           /\ IsFile(fs0, dl.dest)
           /\ dl.existing = Len(fs0[dl.dest].data)
           /\ \E k \in DOMAIN hist : hist[k] = GetEv(dl.url, << Len(fs0[dl.dest].data) >>)
           /\ (dl.pos = "write" \/ pc = "done") =>
                  fs[dl.dest].data = fs0[dl.dest].data \o DlWritten
           /\ pc = "done" => DlWritten = Flatten(dl.body)

\* The first call wrote two bytes of three and failed on the third; the
\* call after it asked for bytes=2- and the file holds the three bytes
C25_Witness ==
    /\ op = "get_file again" /\ pc = "done"
    /\ Len(content) = 3
    /\ \E k \in DOMAIN hist : hist[k] = GetEv(dl.url, << 2 >>)
    /\ fs0[dl.dest].data = SubSeq(content, 1, 2)
    /\ fs[dl.dest].data = content

\* C27: when full is called without a filename, the name of the downloaded
\* file is detected from the download response, the Content-Disposition
\* header or else the last segment of the URL, and is not fixed in advance.
C27_NameDetected ==
    (op = "full" /\ full.filename = << >> /\ dl.dest # NoPath) =>
        dl.dest = FullFilepath(output) \o << HeaderName(env.cd, full.link.href) >>

\* C28: in yd_get_full with metadata set, when the metadata request has
\* succeeded, _metadata.json with the verbatim answer is in the output
\* directory, the given one or else the one named by the resource id, before
\* the download link is asked for.
C28_MetadataSaved ==
    LET metadata_file == MetadataFile(<< OutputOr(full.output) >>)
    IN  (op = "full" /\ full.metadata
         /\ (pc = "full_link" \/ \E k \in DOMAIN hist : hist[k] = LinkEv)) =>
            /\ \E j \in DOMAIN hist :
                 /\ hist[j] = MetaEv(metadata_file, NoPath, ResourceText)
                 /\ \A k \in 1..j : hist[k] # LinkEv
            /\ pc = "full_link" =>
                 IsFile(fs, metadata_file) /\ fs[metadata_file].text = << ResourceText >>

\* hist[k] is the exception that left yd_get_full because the body of the
\* answer to the link request did not parse
LinkBodyInvalid(k) ==
    /\ k > 2 /\ hist[k].ev = "raise" /\ hist[k].q = << << "full" >> >>
    /\ hist[k - 1] = ReplyEv("ok", << >>) /\ hist[k - 2] = LinkEv
    /\ hist[k].s # NoDownloadUrl

\* hist[k] is the exception that left the walker because the body of the
\* answer to its listing request did not parse
ListingBodyInvalid(k) ==
    /\ k > 2 /\ hist[k].ev = "raise" /\ hist[k].q = << << "walk" >> >>
    /\ hist[k - 1] = ReplyEv("ok", << >>) /\ hist[k - 2] = ListEv("walk", hist[k].p)
    /\ hist[k].s \in { "JSONDecodeError", "ValueError" }

\* the part of C29 about the walker: its activation on the directory ends
\* with the error, which ends the operation when the directory is the root;
\* no snapshot of the directory is written and none of its rows is gone to
C29_Listing ==
    \A k \in DOMAIN hist :
        ListingBodyInvalid(k) =>
            /\ hist[k].s = "ValueError"
            /\ hist[k].p = P_root =>
                  k = Len(hist) /\ pc = "raised" /\ exc = "ValueError"
            /\ \A j \in DOMAIN hist :
                 /\ hist[j] # SnapshotEv(hist[k].p)
                 /\ \A i \in DOMAIN remote[hist[k].p].items :
                      LET row == remote[hist[k].p].items[i]
                      IN  /\ hist[j].ev = "get_file" => hist[j].u # row.file
                          /\ "path" \in row.keys => hist[j] # ListEv("walk", row.path)

\* the part of C29 about yd_get_full
C29_Link ==
    \A k \in DOMAIN hist :
        LinkBodyInvalid(k) =>
            /\ hist[k].s = "ValueError"
            /\ pc = "raised" /\ exc = "ValueError" /\ dl = NoDl
            /\ \A j \in DOMAIN hist : hist[j].ev # "get_file"

\* C29: a listing answer of the walker or a download-link answer whose body
\* is not valid JSON makes the operation fail with ValueError("Invalid
\* response from API"); yd_get_full then calls no download, and the walker
\* writes no _metadata.json for that directory and goes to none of its rows.
C29_InvalidResponse == C29_Listing /\ C29_Link

\* A public resource URL: https, the host disk.yandex.ru or disk.yandex.com,
\* the path /d/<id> or /i/<id>, the identifier not empty
IsPublicUrl(u) ==
    /\ Len(u) >= 4
    /\ u[1] = "https://"
    /\ u[2] \in { "disk.yandex.ru", "disk.yandex.com" }
    /\ u[3] \in { "/d/", "/i/" }
    /\ \A k \in 4..Len(u) : u[k] = IdRun

\* C30: the commands full and sync reject every URL that is not a public
\* resource URL: they leave with a status that is not zero, call no Project
\* operation, send no request and write nothing; for a valid URL the
\* operation of the command is called exactly once.
C30_InvalidUrlRejected ==
    (argv # NoArgv /\ pc # "cli") =>
        IF IsPublicUrl(argv.url)
        THEN Cardinality({ k \in DOMAIN hist : hist[k].ev = "invoke" }) = 1
             /\ hist[1] = InvokeEv(op)
        ELSE pc = "exit" /\ exc = "Exit(1)" /\ hist = << >> /\ fs = fs0 /\ dl = NoDl

\* hist[k] is an error that was caught and passed over: the operation went
\* on after it
Discarded(k) ==
    \/ hist[k].ev = "caught"
    \/ hist[k].ev = "raise" /\ ~(k = Len(hist) /\ pc = "raised")

\* C31: with verbose set no error is discarded in silence: whatever catches
\* an error and goes on (the scanner and the walker for a subtree, the
\* walker for a file, the sync and yd_get_full for the scan, yd_get_full
\* for a metadata body that does not parse) logs it first.
C31_NoSilentDiscard ==
    verbose =>
        \A k \in DOMAIN hist :
            Discarded(k) =>
                /\ k < Len(hist)
                /\ hist[k + 1].ev = "log" /\ hist[k + 1].s = hist[k].s


\* The attempts made for the request so far
Attempts == { k \in DOMAIN hist : hist[k].ev = "GET" }

\* The answers received so far
Replies == { k \in DOMAIN hist : hist[k].ev = "reply" }

C32_State ==
    op = "GET" =>
        /\ Cardinality(Attempts) <= 1 + config.max_retries
        /\ \A k \in Attempts :
             k > 1 => /\ hist[k - 1].ev = "sleep"
                      /\ hist[k - 2].s \in { "429", "500", "502", "503", "504", "exc" }
        /\ (/\ Cardinality(Replies) = 1 + config.max_retries
            /\ \A k \in Replies : hist[k].s = "429")
           => (pc = "raised" /\ exc \in { "RetryError", "HTTPError" })

\* C32: a GET is attempted a bounded number of times: it is sent again only
\* after an answer 429, 500, 502, 503 or 504 (or none), at most max_retries
\* times; when every answer is 429 it ends with an error of the status and
\* is not sent for ever; and the request comes to an end.
C32_BoundedRetries == [] C32_State /\ <> (pc \in { "done", "raised" })

\* With max_retries = 3 the request was sent four times, was answered 429
\* each time, and ended with the error
C32_Witness ==
    /\ op = "GET" /\ config.max_retries = 3
    /\ Cardinality(Attempts) = 4
    /\ \A k \in Replies : hist[k].s = "429"
    /\ pc = "raised" /\ exc = "RetryError"

\* hist[j] is an HTTP request
IsSend(j) == hist[j].ev \in { "GET", "list", "resource", "link" }

\* hist[k] is an answer with a status to a request made with stream=True:
\* its body is read later, chunk by chunk
StreamReply(k) ==
    k > 1 /\ hist[k].ev = "reply" /\ hist[k].s # "exc" /\ hist[k - 1].ev = "GET"

\* Between hist[k] and hist[j] the answer hist[k] was closed, or its body
\* was read to the end: it was a 200 answer and get_file did not leave with
\* an error of its own before the body was through
Released(k, j) ==
    \/ \E c \in k..j : hist[c] = CloseEv
    \/ /\ hist[k].s = "ok"
       /\ \A i \in k..j :
            ~(/\ hist[i].ev = "raise" /\ hist[i].q = << << "get_file" >> >>
              /\ hist[i].s # "RequestException")

\* What the walker does for the row: the listing request, the directory and
\* the snapshot of a directory row; the call of get_file and its requests
\* for a file row
OfRow(row, k) ==
    /\ "path" \in row.keys
    /\ \/ /\ row.type = "dir"
          /\ \/ hist[k] = ListEv("walk", row.path)
             \/ hist[k].ev = "meta" /\ hist[k].q = row.path
             \/ /\ hist[k].ev \in { "get_file", "GET" }
                /\ \E i \in DOMAIN remote[row.path].items :
                     hist[k].u = remote[row.path].items[i].file
       \/ /\ row.type = "file"
          /\ hist[k].ev \in { "get_file", "GET" } /\ hist[k].u = row.file

\* the part of C33 about the order: what is done for a row of the root
\* listing, its subtree included, is done before anything for a later row
C33_ListingOrder ==
    op = "sync" =>
        \A i, j \in DOMAIN remote[P_root].items :
            i < j =>
                \A k, l \in DOMAIN hist :
                    (OfRow(remote[P_root].items[i], k) /\ OfRow(remote[P_root].items[j], l))
                        => k < l

\* the part of C33 about the requests: when a request is sent, every answer
\* received before it has been read to the end or closed
C33_OneInFlight ==
    \A k, j \in DOMAIN hist :
        (StreamReply(k) /\ k < j /\ IsSend(j)) => Released(k, j)

\* C33: the run is sequential and depth-first in the order of the listing:
\* the walker is through with a row, the subtree of a directory row
\* included, before it touches the next, and at most one HTTP request is in
\* flight: an answer is read to the end or closed before the next request
\* is sent.
C33_Sequential == C33_ListingOrder /\ C33_OneInFlight

\* hist[k] is something the walker does: a listing request of its own, a
\* directory, a snapshot, a call of get_file or a download request
WalkerAct(k) ==
    \/ hist[k].ev = "list" /\ hist[k].s = "walk"
    \/ hist[k].ev \in { "mkdir", "meta", "get_file", "GET" }

\* the places of hist where the walker asks for the listing of p; the
\* request sent again after a 429 answer and its pause belongs to the same
\* fetch
WalkFetches(p) ==
    { k \in DOMAIN hist :
        hist[k] = ListEv("walk", p) /\ ~(k > 1 /\ hist[k - 1].ev = "sleep") }

\* hist[k] is done by the walker for the directory p after its listing was
\* fetched: its local directory, its snapshot, a row of it
InsideOf(p, k) ==
    \/ hist[k] = MkdirEv(DirPath(output, p))
    \/ hist[k].ev = "meta" /\ hist[k].q = p
    \/ \E i \in DOMAIN remote[p].items : OfRow(remote[p].items[i], k)

\* the snapshot of p is written after its local directory was created
PersistedInOrder(p) ==
    \A k \in DOMAIN hist :
        (hist[k].ev = "meta" /\ hist[k].q = p) =>
            /\ \E j \in 1..(k - 1) : hist[j] = MkdirEv(DirPath(output, p))
            /\ \A l \in DOMAIN hist :
                 (\E i \in DOMAIN remote[p].items : OfRow(remote[p].items[i], l)) => k < l

\* C34: in a sync every listing request of the scanner precedes the first
\* request or write of the walker; the walker asks for the listing of each
\* directory itself, before it does anything for that directory, and asks
\* once: a directory is fetched, created, its snapshot written and its rows
\* gone through in this order and at most once, also when its subtree fails.
C34_ScanThenWalkOnce ==
    op = "sync" =>
        /\ \A k, l \in DOMAIN hist :
             (hist[k].ev = "list" /\ hist[k].s = "scan" /\ WalkerAct(l)) => k < l
        /\ \A p \in DOMAIN remote :
             /\ Cardinality(WalkFetches(p)) <= 1
             /\ Cardinality({ k \in DOMAIN hist : hist[k].ev = "meta" /\ hist[k].q = p }) <= 1
             /\ \A k \in DOMAIN hist :
                  InsideOf(p, k) => \E j \in WalkFetches(p) : j < k
             /\ PersistedInOrder(p)

\* a sync has ended after the scanner went through the tree and the walker
\* lost the subtree of d to a failed listing request
C34_Witness ==
    /\ op = "sync" /\ pc = "done"
    /\ \E k \in DOMAIN hist : hist[k] = ListEv("scan", P_d)
    /\ WalkFetches(P_d) # { }
    /\ \E k \in DOMAIN hist :
         /\ hist[k].ev = "raise" /\ hist[k].q = << << "walk" >> >> /\ hist[k].p = P_d
         /\ hist[k].s \in { "HTTPError", "RequestException" }

\* get_file has ended
DlEnded == op = "get_file" /\ pc \in { "done", "raised" }

\* a request of this call got no answer or an error status, or the
\* directory could not be created: the file server or the disk failed
\* before the transport was looked at
FailedBefore ==
    \/ \E k \in DOMAIN hist : hist[k].ev = "reply" /\ hist[k].s \in { "exc", "err" }
    \/ exc = "OSError"

\* the node at the destination is what it was when get_file was called
DestinationUntouched ==
    IF dl.dest \in DOMAIN fs0
    THEN dl.dest \in DOMAIN fs /\ fs[dl.dest] = fs0[dl.dest]
    ELSE dl.dest \notin DOMAIN fs

\* the part of C35 about the helper: a helper that does not exit with
\* status 0 makes get_file raise what subprocess.run raises
C35_HelperFailureRaises ==
    \A k \in DOMAIN hist :
        (hist[k].ev = "run" /\ hist[k].s # "ok") =>
            /\ DlEnded /\ pc = "raised" /\ exc = hist[k].s
            /\ DestinationUntouched

\* the part of C35 about the missing path: the call fails and the
\* destination is as it was
C35_NoPathFails ==
    (DlEnded /\ dl.aria2 /\ dl.aria2path = << >>) =>
        /\ pc = "raised"
        /\ dl.dest # NoPath => DestinationUntouched
        /\ \A k \in DOMAIN hist : hist[k].ev # "run"

\* C35: get_file called with aria2 and no aria2path fails with ValueError,
\* unless the file server or the disk failed it before, and leaves the
\* destination as it was; a helper that exits with another status than 0,
\* does not end in time or is not there makes get_file raise.
C35_HelperTransport ==
    /\ C35_HelperFailureRaises
    /\ C35_NoPathFails
    /\ (DlEnded /\ dl.aria2 /\ dl.aria2path = << >> /\ ~FailedBefore) => exc = "ValueError"

\* The place a local path names once the operating system has followed
\* its ".." components: each steps back over the component before it
RECURSIVE ResolveOnto(_, _)
ResolveOnto(done, rest) ==
    IF rest = << >>
    THEN done
    ELSE IF Head(rest) = DotDot /\ done # << >> /\ done[Len(done)] # DotDot
         THEN ResolveOnto(SubSeq(done, 1, Len(done) - 1), Tail(rest))
         ELSE ResolveOnto(Append(done, Head(rest)), Tail(rest))

Resolve(p) == ResolveOnto(<< >>, p)

\* the local path p names the output root or a place below it
UnderRoot(p) == Resolve(p) # << >> /\ Resolve(p)[1] = output

\* p names the working directory or a directory above it: they are there
\* before the run, os.makedirs creates nothing for them
IsAbove(p) == \A k \in DOMAIN Resolve(p) : Resolve(p)[k] = DotDot

\* the local paths the run has created or written: what is there now and
\* was not, or was something else, when the run began
Touched ==
    { p \in DOMAIN fs : ~IsAbove(p) /\ (p \notin DOMAIN fs0 \/ fs[p] # fs0[p]) }

\* C36: every local path the walker creates or writes lies under the
\* output root, whatever the path strings of the listing are, segments ".."
\* included.
C36_WritesUnderRoot ==
    op = "sync" => \A p \in Touched : UnderRoot(p)

\* the places of hist where the scanner asks for the listing of p, a
\* request sent again after a 429 answer counted with the first
ScanFetches(p) ==
    { k \in DOMAIN hist :
        hist[k] = ListEv("scan", p) /\ ~(k > 1 /\ hist[k - 1].ev = "sleep") }

\* q is the remote directory p or one above it
IsAncestorOrSelf(q, p) ==
    /\ Len(Components(q)) <= Len(Components(p))
    /\ Components(q) = SubSeq(Components(p), 1, Len(Components(q)))

\* the listing of p holds a directory row for p itself or for a directory
\* above it
LeadsBack(p) ==
    \E i \in DOMAIN remote[p].items :
        LET row == remote[p].items[i]
        IN  /\ { "path", "type" } \subseteq row.keys /\ row.type = "dir"
            /\ IsAncestorOrSelf(row.path, p)

\* the remote tree is no tree: some listing leads back
Looping == \E p \in DOMAIN remote : LeadsBack(p)

\* the descent was stopped by the interpreter
Stopped == \E k \in DOMAIN hist : hist[k].ev = "raise" /\ hist[k].s = "RecursionError"

\* the scanner is through: the walker has begun or the sync has returned
ScanThrough ==
    ~nofiles /\ (pc = "done" \/ \E k \in DOMAIN hist : hist[k] = ListEv("walk", P_root))

\* the walker has run and is through
WalkThrough == pc = "done" /\ \E k \in DOMAIN hist : hist[k] = ListEv("walk", P_root)

C37_State ==
    op = "sync" =>
        /\ ~Looping =>
             /\ ~Stopped
             /\ \A p \in DOMAIN remote :
                  /\ Cardinality(ScanFetches(p)) <= 1
                  /\ Cardinality(WalkFetches(p)) <= 1
                  /\ ScanThrough => Cardinality(ScanFetches(p)) = 1
                  /\ WalkThrough => Cardinality(WalkFetches(p)) = 1
        /\ (Looping /\ pc \in { "done", "raised" }) =>
             /\ Stopped
             /\ \E p \in DOMAIN remote :
                  Cardinality(ScanFetches(p)) > 1 \/ Cardinality(WalkFetches(p)) > 1

Listed(fn) == SelectSeq(hist, LAMBDA e : e.ev = "list" /\ e.s = fn)

\* the scanner and the walker asked for the same directories in the same
\* order
SameDirectories ==
    /\ Len(Listed("scan")) = Len(Listed("walk"))
    /\ \A i \in DOMAIN Listed("scan") : Listed("scan")[i].p = Listed("walk")[i].p

\* the calls of get_file the walker has made
Invocations == { k \in DOMAIN hist : hist[k].ev = "get_file" }

\* a sync has returned after the scanner and the walker ran through with no
\* request left unanswered or refused and nothing raised anywhere
CleanSync ==
    /\ op = "sync" /\ pc = "done" /\ ~nofiles
    /\ \E k \in DOMAIN hist : hist[k] = ListEv("walk", P_root)
    /\ \A k \in DOMAIN hist :
         /\ hist[k].ev # "raise"
         /\ hist[k].ev = "reply" => hist[k].s = "ok"

\* the part of C38 about the directories
C38_SameDirectories == CleanSync => SameDirectories

\* C38: when no request fails, the file count of the scanner is the number
\* of calls of get_file the walker makes after it, and both traversals ask
\* for the same directories in the same order.
C38_ScanPredictsWalk ==
    CleanSync => (ret[1] = Cardinality(Invocations) /\ SameDirectories)

\* the walker was called by this sync
WalkReached == \E k \in DOMAIN hist : hist[k] = ListEv("walk", P_root)

\* _metadata.json in the output root was written by this run and begins
\* with the body of the root listing
RootSnapshotLeft ==
    /\ \E k \in DOMAIN hist : hist[k] = SnapshotEv(P_root)
    /\ IsFile(fs, SnapshotFile(P_root))
    /\ fs[SnapshotFile(P_root)].text = << Body(P_root) >>

Malformed(row) ==
    /\ "path" \in row.keys
    /\ \/ "type" \notin row.keys
       \/ row.type = "file" /\ "file" \notin row.keys
       \/ row.type = "file" /\ Components(row.path) = << >>

\* the row is a file row in good shape that this sync has to download: it
\* was not there when the sync began, or update is off
DueFile(row) ==
    /\ AllKeys \subseteq row.keys /\ row.type = "file" /\ Components(row.path) # << >>
    /\ ~(update /\ Exists(fs0, FullFilePath(output, row.path)))

\* the traversal fn received the listing of p
Received(fn, p) ==
    \E k \in DOMAIN hist :
        /\ hist[k] = ListEv(fn, p)
        /\ k < Len(hist) /\ hist[k + 1] = ReplyEv("ok", << >>)

\* C40: a row out of shape does not keep the rows after it in the same
\* listing from being processed: when the sync is over, a file that stands
\* after such a row and is due was counted by the scanner that received the
\* listing, and get_file was called for it by the walker that received it.
C40_SiblingsProcessed ==
    (op = "sync" /\ ~nofiles /\ pc \in { "done", "raised" }) =>
        \A p \in DOMAIN remote :
            \A i, j \in DOMAIN remote[p].items :
                (i < j /\ Malformed(remote[p].items[i]) /\ DueFile(remote[p].items[j])) =>
                    /\ Received("scan", p) => ret[1] >= 1
                    /\ Received("walk", p) =>
                         \E k \in DOMAIN hist :
                             hist[k].ev = "get_file" /\ hist[k].u = remote[p].items[j].file
====
